---- MODULE Spec2Model ----
(***************************************************************************)
(* Model of the CAN protocol engine (stiebel_control/can/protocol.py),     *)
(* the CAN interface callback layer (stiebel_control/can/interface.py)     *)
(* the priority poller (stiebel_control/heatpump/signal_poller.py) and    *)
(* the signal gateway (stiebel_control/signal_gateway.py).                 *)
(*                                                                         *)
(* Every handler is one action; SpecThreads splits SignalPoller.update and *)
(* the frame dispatch into their statements to interleave the main thread  *)
(* with the receive thread.  Python lists are sequences, Python dicts are  *)
(* functions whose DOMAIN is the set of keys present.  Python indices are  *)
(* 0-based; Byte(data, i) and Member(i) do the shift.                      *)
(***************************************************************************)
EXTENDS Integers, Sequences, FiniteSets, TLC

(***************************************************************************)
(* Bounds of the model                                                     *)
(***************************************************************************)
\* number of read_signal calls that carry a callback
MaxCallbacks == 2
\* number of response closures the poller creates per task
MaxCycles == 3
\* number of frames the receive path processes
MaxFrames == 2
\* number of times the clock advances
MaxTicks == 2

(***************************************************************************)
(* Static data                                                             *)
(***************************************************************************)
\* protocol.py DEFAULT_CAN_MEMBERS (can ids and sub-addresses in decimal)
DEFAULT_CAN_MEMBERS ==
  << [name |-> "HACLIENT", can_id |-> 1664, read_id |-> <<0, 0>>,   write_id |-> <<0, 0>>,   confirmation_id |-> <<226, 0>>],
     [name |-> "BOILER",   can_id |-> 384,  read_id |-> <<49, 0>>,  write_id |-> <<48, 0>>,  confirmation_id |-> <<0, 0>>],
     [name |-> "FE7X",     can_id |-> 769,  read_id |-> <<97, 1>>,  write_id |-> <<0, 0>>,   confirmation_id |-> <<0, 0>>],
     [name |-> "FEK",      can_id |-> 770,  read_id |-> <<97, 2>>,  write_id |-> <<0, 0>>,   confirmation_id |-> <<0, 0>>],
     [name |-> "MANAGER",  can_id |-> 1152, read_id |-> <<145, 0>>, write_id |-> <<144, 0>>, confirmation_id |-> <<0, 0>>],
     [name |-> "HEATING",  can_id |-> 1280, read_id |-> <<161, 0>>, write_id |-> <<160, 0>>, confirmation_id |-> <<0, 0>>],
     [name |-> "MIXER",    can_id |-> 1537, read_id |-> <<193, 1>>, write_id |-> <<192, 1>>, confirmation_id |-> <<0, 0>>],
     [name |-> "FE7",      can_id |-> 1538, read_id |-> <<193, 2>>, write_id |-> <<0, 0>>,   confirmation_id |-> <<0, 0>>] >>

\* StiebelProtocol.can_members / CanInterface.can_members
can_members == DEFAULT_CAN_MEMBERS

CM_HACLIENT == 0

\* can_members[i] with the 0-based index of the source
Member(i) == can_members[i + 1]

\* The loaded signal catalog.  Entry 1 is the entry every lookup falls back
\* to (ELSTER_TABLE[0]).  The YAML catalog itself is data: the model loads a
\* catalog with one untyped (ET_NONE) signal and one typed signal.
ELSTER_TABLE ==
  << [name |-> "INDEX_NOT_FOUND",    english_name |-> "INDEX_NOT_FOUND", index |-> 0,   type |-> "ET_NONE"],
     [name |-> "FEHLERMELDUNG",      english_name |-> "ERROR_MESSAGE",   index |-> 5,   type |-> "ET_NONE"],
     [name |-> "AUSSENTEMP",         english_name |-> "OUTSIDE_TEMP",    index |-> 294, type |-> "ET_DEC_VAL"] >>

\* ELSTER_INDEX_BY_INDEX.get(index, ELSTER_TABLE[0]); a later catalog entry
\* with the same index overwrites an earlier one in the dict
get_elster_entry_by_index(index) ==
  LET hits == {i \in 1..Len(ELSTER_TABLE) : ELSTER_TABLE[i].index = index}
  IN IF hits = {} THEN ELSTER_TABLE[1]
     ELSE ELSTER_TABLE[CHOOSE i \in hits : \A j \in hits : j <= i]

\* ELSTER_INDEX_BY_ENGLISH_NAME.get(english_name, ELSTER_TABLE[0])
get_elster_entry_by_english_name(english_name) ==
  LET hits == {i \in 1..Len(ELSTER_TABLE) : ELSTER_TABLE[i].english_name = english_name}
  IN IF hits = {} THEN ELSTER_TABLE[1]
     ELSE ELSTER_TABLE[CHOOSE i \in hits : \A j \in hits : j <= i]

\* value_from_signal: the ET_NONE branch returns the raw value.  For every
\* other type the second branch condition is evaluated, and it reads the
\* name "lsterType", which is not defined: the call raises NameError.
value_from_signal(value, value_type) ==
  IF value_type = "ET_NONE"
  THEN [raised |-> FALSE, value |-> value]
  ELSE [raised |-> TRUE,  value |-> 0]

(***************************************************************************)
(* Frames                                                                  *)
(***************************************************************************)
\* data[i] of the source
Byte(data, i) == data[i + 1]

\* a response payload in the standard layout
StdPayload(index, raw) == <<210, 0, index, raw \div 256, raw % 256, 0, 0>>

\* a response payload in the extended layout
ExtPayload(index, raw) == <<210, 0, 250, index \div 256, index % 256, raw \div 256, raw % 256>>

\* senders of received frames: BOILER and MANAGER
RxIds == {384, 1152}

\* indices carried by received frames: an untyped catalog signal, a typed
\* catalog signal and an index that is not in the catalog
RxIndices == {5, 294, 513}

RxRaws == {245}

\* received frames: well-formed ones and truncated ones
RxFrames ==
  {[arbitration_id |-> id, data |-> IF ix <= 255 THEN StdPayload(ix, raw) ELSE ExtPayload(ix, raw)]
     : id \in RxIds, ix \in RxIndices, raw \in RxRaws}
  \cup {[arbitration_id |-> id, data |-> SubSeq(StdPayload(5, 245), 1, 5)] : id \in RxIds}

\* the frames the receive thread sees while the poller runs: responses for
\* the polled signal from both members, an uncatalogued index, a truncated
\* frame
PollerFrames ==
  {f \in RxFrames : f.data[3] # 250 \/ f.data[4] * 256 + f.data[5] = 513}

(***************************************************************************)
(* State                                                                   *)
(***************************************************************************)
VARIABLES
  now,               \* time.time()
  signal_handlers,   \* StiebelProtocol.signal_handlers (list)
  pending_requests,  \* StiebelProtocol.pending_requests (dict)
  signal_callbacks,  \* CanInterface.signal_callbacks (dict of lists)
  polling_tasks,     \* SignalPoller.polling_tasks (dict of lists of tuples)
  pending_polls,     \* SignalPoller.pending_polls (dict)
  created,           \* per poll key, how many response closures exist
  next_cb,           \* how many read_signal callbacks exist
  cb_calls,          \* per read_signal callback, how often it was invoked
  evicted,           \* pairs <<old, new>>: callback new overwrote the pending callback old
  replaced,          \* poller closures that update replaced
  frames,            \* how many frames the receive path has processed
  ticks,             \* how many times the clock has advanced
  attempts,          \* per poll key, the last read update issued: time and result
  main_thread,       \* the main-loop thread: position in update and its locals
  recv_thread,       \* the receive thread: position in the dispatch and its locals
  answered,          \* history: closures that handled a response while update was still recording their poll
  polled_signals,    \* SignalGateway.polled_signals (dict)
  pending_commands,  \* CommandHandler.pending_commands (dict)
  entity_map,               \* SignalEntityMapper.entity_map: (signal, member) -> entity id
  commanded,                \* history: signal index -> time and payload of the last command
  last               \* what the last operation did

\* the positions and locals of the two threads
thread_vars == <<main_thread, recv_thread, answered>>

\* the state of the signal gateway and its command handler
gateway_vars == <<polled_signals, pending_commands, entity_map, commanded>>

vars == <<now, signal_handlers, pending_requests, signal_callbacks, polling_tasks,
          pending_polls, created, next_cb, cb_calls, evicted, replaced, frames, ticks,
          attempts, thread_vars, gateway_vars, last>>

\* the clock at construction; time.time() is far beyond every interval
StartTime == 1000

\* how far the clock moves between two operations
TimeSteps == {3, 61}

\* handlers registered with add_signal_handler: CanInterface._on_signal_update
\* ("iface", registered by CanInterface.__init__) and two other observers
ExtHandlers == {"hA", "hB"}

\* arguments of read_signal calls that carry a callback: BOILER, and an
\* index past the end of the member list
ReadMembers == {1, 8}

ReadSignals == {5, 294}

(***************************************************************************)
(* Poller configuration (the parsed pollable_signals.yaml)                 *)
(***************************************************************************)
Priorities == <<"high", "medium", "low">>

\* SignalPoller.polling_intervals after _load_config
polling_intervals == [high |-> 3, medium |-> 300, low |-> 900]

\* SignalPoller.poll_jitter_seconds (constructor argument)
poll_jitter_seconds == 1

\* config['priority_groups']: one untyped signal polled from the boiler
priority_groups ==
  [high   |-> << [signal |-> "ERROR_MESSAGE", can_member |-> "BOILER"] >>,
   medium |-> << >>,
   low    |-> << >>]

\* SignalPoller._get_member_index (every configured member exists)
get_member_index(member_name) ==
  CHOOSE i \in 0..(Len(can_members) - 1) :
    /\ Member(i).name = member_name
    /\ \A j \in 0..(i - 1) : Member(j).name # member_name

\* the task tuples _load_config appends
load_config ==
  [p \in DOMAIN priority_groups |->
     [i \in 1..Len(priority_groups[p]) |->
        [signal_index       |-> get_elster_entry_by_english_name(priority_groups[p][i].signal).index,
         member_index       |-> get_member_index(priority_groups[p][i].can_member),
         last_poll_time     |-> 0,
         last_response_time |-> 0,
         response_count     |-> 0,
         poll_count         |-> 0]]]

\* the (priority, position) pairs in the order update visits them
RECURSIVE TaskOrderFrom(_, _)
TaskOrderFrom(p, i) ==
  IF p > Len(Priorities) THEN << >>
  ELSE IF i > Len(priority_groups[Priorities[p]]) THEN TaskOrderFrom(p + 1, 1)
  ELSE << <<Priorities[p], i>> >> \o TaskOrderFrom(p, i + 1)

TaskOrder == TaskOrderFrom(1, 1)

\* the keys of pending_polls: (member_index, signal_index) of every task
PollKeys ==
  {<<load_config[TaskOrder[k][1]][TaskOrder[k][2]].member_index,
     load_config[TaskOrder[k][1]][TaskOrder[k][2]].signal_index>> : k \in 1..Len(TaskOrder)}

(***************************************************************************)
(* Python list and dict helpers                                            *)
(***************************************************************************)
\* x in list
InList(x, list) == \E i \in 1..Len(list) : list[i] = x

\* list.remove(x): drops the first occurrence
ListRemove(list, x) ==
  LET i == CHOOSE k \in 1..Len(list) : list[k] = x /\ \A j \in 1..(k - 1) : list[j] # x
  IN SubSeq(list, 1, i - 1) \o SubSeq(list, i + 1, Len(list))

\* del d[key] / d.pop(key)
DictDel(d, key) == [k \in (DOMAIN d) \ {key} |-> d[k]]

\* d[key] = value
DictSet(d, key, value) == (key :> value) @@ d

\* d.get(key, [])
DictGetList(d, key) == IF key \in DOMAIN d THEN d[key] ELSE << >>

(***************************************************************************)
(* CanInterface: per-signal callbacks                                      *)
(***************************************************************************)
\* CanInterface.add_signal_callback, on the dict of lists
add_signal_callback(cbs, signal_index, can_id, callback) ==
  LET key  == <<can_id, signal_index>>
      cbs1 == IF key \in DOMAIN cbs THEN cbs ELSE DictSet(cbs, key, << >>)
  IN IF InList(callback, cbs1[key]) THEN cbs1
     ELSE [cbs1 EXCEPT ![key] = Append(@, callback)]

\* CanInterface.remove_signal_callback, on the dict of lists
remove_signal_callback(cbs, signal_index, can_id, callback) ==
  LET key == <<can_id, signal_index>>
  IN IF key \in DOMAIN cbs /\ InList(callback, cbs[key])
     THEN [cbs EXCEPT ![key] = ListRemove(@, callback)]
     ELSE cbs

(***************************************************************************)
(* SignalPoller: the response closure                                      *)
(***************************************************************************)
\* A closure made by _create_response_callback is <<member_index,
\* signal_index, n>>: the two captured arguments and the number of the
\* closure (two closures for the same task are different objects).
\* The work record st carries signal_callbacks, polling_tasks, pending_polls
\* and the list of closures invoked so far.

\* the enumerate/break loop of the closure: index of the first member with
\* this can_id, -1 for None
MemberIndexOfCanId(can_id) ==
  LET hits == {i \in 0..(Len(can_members) - 1) : Member(i).can_id = can_id}
  IN IF hits = {} THEN -1 ELSE CHOOSE i \in hits : \A j \in hits : i <= j

\* position of the first task of a list for (signal, member), 0 if none
FirstTask(tasks, s_idx, m_idx) ==
  LET hits == {i \in 1..Len(tasks) : tasks[i].signal_index = s_idx /\ tasks[i].member_index = m_idx}
  IN IF hits = {} THEN 0 ELSE CHOOSE i \in hits : \A j \in hits : i <= j

\* lines 246-259: in every priority list the first matching task gets the
\* response time and one more response
CountResponse(tasks_by_priority, signal_index, member_index) ==
  [p \in DOMAIN tasks_by_priority |->
     LET i == FirstTask(tasks_by_priority[p], signal_index, member_index)
     IN IF i = 0 THEN tasks_by_priority[p]
        ELSE [tasks_by_priority[p] EXCEPT ![i].last_response_time = now,
                                          ![i].response_count = @ + 1]]

\* the closure body (lines 219-267); the handler it deregisters is the one
\* recorded in pending_polls
response_callback(h, st, received_signal_index, can_id) ==
  LET member_index == h[1]
      signal_index == h[2]
      poll_key     == <<member_index, signal_index>>
      counted      == [st EXCEPT !.polling_tasks = CountResponse(@, signal_index, member_index)]
  IN IF received_signal_index # signal_index THEN st
     ELSE IF MemberIndexOfCanId(can_id) # member_index THEN st
     ELSE IF poll_key \in DOMAIN st.pending_polls
     THEN [counted EXCEPT
             !.signal_callbacks = remove_signal_callback(@, signal_index, Member(member_index).can_id,
                                                         st.pending_polls[poll_key].callback),
             !.pending_polls = DictDel(@, poll_key)]
     ELSE counted

(***************************************************************************)
(* CanInterface: dispatch                                                  *)
(***************************************************************************)
\* the first loop of _process_callbacks: a Python for loop over the list
\* object itself, so a removal during the loop shifts the later elements
RECURSIVE process_callbacks(_, _, _, _, _)
process_callbacks(st, key, signal_index, can_id, i) ==
  IF i > Len(DictGetList(st.signal_callbacks, key)) THEN st
  ELSE LET callback == st.signal_callbacks[key][i]
           called   == [st EXCEPT !.invoked = Append(@, callback)]
       IN process_callbacks(response_callback(callback, called, signal_index, can_id),
                            key, signal_index, can_id, i + 1)

\* CanInterface._on_signal_update.  latest_values is only written here, and
\* the global callbacks (the downstream consumer) run after the per-signal
\* ones inside _call_callback: neither changes the state kept here.
on_signal_update(st, signal_index, can_id) ==
  process_callbacks(st, <<can_id, signal_index>>, signal_index, can_id, 1)

(***************************************************************************)
(* StiebelProtocol: the receive path                                       *)
(***************************************************************************)
\* the length check with a limit that lets a 5-byte payload through
IsShort_limit5(data) == Len(data) < 5

\* line 121: the length check
IsShort(data) == Len(data) < 7

\* lines 126-135 and 141: index and raw value of a payload
ParseFrame(data) ==
  IF Byte(data, 2) = 250
  THEN [index |-> Byte(data, 3) * 256 + Byte(data, 4), raw |-> Byte(data, 5) * 256 + Byte(data, 6)]
  ELSE [index |-> Byte(data, 2),                       raw |-> Byte(data, 3) * 256 + Byte(data, 4)]

\* lines 158-159: the handler loop.  A handler in bad raises when called;
\* the exception leaves the loop (the only except clause is the outer one).
RECURSIVE NotifyHandlers(_, _, _, _, _, _)
NotifyHandlers(st, handlers, i, bad, ei_index, can_id) ==
  IF i > Len(handlers) THEN st
  ELSE LET handler == handlers[i]
           called  == [st EXCEPT !.handlers_invoked = Append(@, handler)]
       IN IF handler \in bad THEN [called EXCEPT !.error = TRUE, !.raiser = handler]
          ELSE IF handler = "iface"
          THEN NotifyHandlers(on_signal_update(called, ei_index, can_id), handlers, i + 1, bad, ei_index, can_id)
          ELSE NotifyHandlers(called, handlers, i + 1, bad, ei_index, can_id)

\* the callback waiting for the sender and index of a full-length frame when
\* the frame arrives, 0 if none waits
PendingBefore(msg) ==
  IF Len(msg.data) < 7 THEN 0
  ELSE LET key == <<msg.arbitration_id, ParseFrame(msg.data).index>>
       IN IF key \in DOMAIN pending_requests THEN pending_requests[key].callback ELSE 0

\* the work record before a frame is processed
FrameStart(msg) ==
  [signal_callbacks |-> signal_callbacks,
   polling_tasks    |-> polling_tasks,
   pending_polls    |-> pending_polls,
   pending_requests |-> pending_requests,
   cb_calls         |-> cb_calls,
   op               |-> "frame",
   msg              |-> msg,
   short            |-> FALSE,
   error            |-> FALSE,
   index            |-> -1,
   ei_index         |-> -1,
   value            |-> -1,
   had_pending      |-> FALSE,
   cb               |-> 0,
   cb_invoked       |-> FALSE,
   cb_raised        |-> FALSE,
   raiser           |-> "",
   pending_before   |-> PendingBefore(msg),
   registered       |-> signal_handlers,
   handlers_invoked |-> << >>,
   invoked          |-> << >>]

\* _process_can_message (lines 115-162) on the work record.  cb_raises: the
\* pending callback raises when called; bad: the handlers that raise.
ProcessFrame(msg, cb_raises, bad) ==
  LET can_id == msg.arbitration_id
      data   == msg.data
      st0    == FrameStart(msg)
  IN IF IsShort(data) THEN [st0 EXCEPT !.short = TRUE]
     ELSE
       LET parsed      == ParseFrame(data)
           index       == parsed.index
           ei          == get_elster_entry_by_index(index)
           typed       == value_from_signal(parsed.raw, ei.type)
           request_key == <<can_id, index>>
           st1         == [st0 EXCEPT !.index = index, !.ei_index = ei.index]
       IN IF typed.raised THEN [st1 EXCEPT !.error = TRUE]
          ELSE
            LET st2 == [st1 EXCEPT !.value = typed.value]
            IN IF request_key \in DOMAIN pending_requests
               THEN LET cb  == pending_requests[request_key].callback
                        st3 == [st2 EXCEPT !.pending_requests = DictDel(@, request_key),
                                           !.had_pending = TRUE,
                                           !.cb = cb,
                                           !.cb_invoked = TRUE,
                                           !.cb_calls[cb] = @ + 1]
                    IN IF cb_raises THEN [st3 EXCEPT !.error = TRUE, !.cb_raised = TRUE]
                       ELSE NotifyHandlers(st3, signal_handlers, 1, bad, ei.index, can_id)
               ELSE NotifyHandlers(st2, signal_handlers, 1, bad, ei.index, can_id)

\* what an operation leaves in last: the work record without the state
LogOf(st) ==
  [f \in (DOMAIN st) \ {"signal_callbacks", "polling_tasks", "pending_polls",
                         "pending_requests", "cb_calls"} |-> st[f]]

\* the receive thread hands one frame to _process_can_message
process_can_message(msg, cb_raises, bad) ==
  LET st == ProcessFrame(msg, cb_raises, bad)
  IN /\ frames < MaxFrames
     /\ frames' = frames + 1
     /\ signal_callbacks' = st.signal_callbacks
     /\ polling_tasks' = st.polling_tasks
     /\ pending_polls' = st.pending_polls
     /\ pending_requests' = st.pending_requests
     /\ cb_calls' = st.cb_calls
     /\ last' = LogOf(st)
     /\ UNCHANGED <<thread_vars, gateway_vars, attempts, now, signal_handlers, created, next_cb, evicted, replaced, ticks>>

(***************************************************************************)
(* StiebelProtocol: handlers and read requests                             *)
(***************************************************************************)
\* add_signal_handler (lines 95-96)
add_signal_handler(handler) ==
  /\ signal_handlers' = IF InList(handler, signal_handlers) THEN signal_handlers
                        ELSE Append(signal_handlers, handler)
  /\ last' = [op |-> "add_handler", handler |-> handler]
  /\ UNCHANGED <<thread_vars, gateway_vars, attempts, now, pending_requests, signal_callbacks, polling_tasks, pending_polls,
                 created, next_cb, cb_calls, evicted, replaced, frames, ticks>>

\* remove_signal_handler (lines 105-106)
remove_signal_handler(handler) ==
  /\ signal_handlers' = IF InList(handler, signal_handlers) THEN ListRemove(signal_handlers, handler)
                        ELSE signal_handlers
  /\ last' = [op |-> "remove_handler", handler |-> handler]
  /\ UNCHANGED <<thread_vars, gateway_vars, attempts, now, pending_requests, signal_callbacks, polling_tasks, pending_polls,
                 created, next_cb, cb_calls, evicted, replaced, frames, ticks>>

\* the arbitration id taken from the member the request goes to
SourceAddress_of_target(member) == member.can_id

\* lines 240-245 and 312-317: the arbitration id of a request to a member is
\* the can id of the HACLIENT entry, whatever the member
SourceAddress(member) == Member(CM_HACLIENT).can_id

\* lines 207-231: the payload of a read request
ReadPayload(member, index) ==
  LET index_byte1 == (index \div 256) % 256
      index_byte2 == index % 256
  IN IF index_byte1 = 0
     THEN <<member.read_id[1], member.read_id[2], index_byte2, 0, 0, 0, 0>>
     ELSE <<member.read_id[1], member.read_id[2], 250, index_byte1, index_byte2, 0, 0>>

\* StiebelProtocol.read_signal (lines 191-254) on the dict of pending
\* requests; callback 0 is None; send_ok is what transport.send_message
\* returns.  The entry is written before the frame is sent.
ReadSignal(preq, member_index, signal_index, callback, send_ok) ==
  IF member_index >= Len(can_members)
  THEN [success |-> FALSE, pending_requests |-> preq, sent |-> << >>]
  ELSE LET member == Member(member_index)
           ei     == get_elster_entry_by_index(signal_index)
           key    == <<member.can_id, ei.index>>
           frame  == [arbitration_id |-> SourceAddress(member), data |-> ReadPayload(member, ei.index)]
       IN [success          |-> send_ok,
           pending_requests |-> IF callback # 0
                                THEN DictSet(preq, key, [callback |-> callback, timestamp |-> now])
                                ELSE preq,
           sent             |-> IF send_ok THEN <<frame>> ELSE << >>]

\* a caller (the scanner, the downstream consumer) reads a signal and passes
\* a new callback
read_signal(member_index, signal_index, send_ok) ==
  LET callback == next_cb + 1
      r        == ReadSignal(pending_requests, member_index, signal_index, callback, send_ok)
      key      == IF member_index >= Len(can_members) THEN << >>
                  ELSE <<Member(member_index).can_id, get_elster_entry_by_index(signal_index).index>>
      old      == IF key \in DOMAIN pending_requests /\ key \in DOMAIN r.pending_requests
                     /\ r.pending_requests[key].callback = callback
                  THEN {<<pending_requests[key].callback, callback>>} ELSE {}
  IN /\ next_cb < MaxCallbacks
     /\ next_cb' = callback
     /\ pending_requests' = r.pending_requests
     /\ evicted' = evicted \cup old
     /\ last' = [op |-> "read", member_index |-> member_index, signal_index |-> signal_index,
                 callback |-> callback, success |-> r.success, sent |-> r.sent,
                 overwrote |-> old]
     /\ UNCHANGED <<thread_vars, gateway_vars, attempts, now, signal_handlers, signal_callbacks, polling_tasks, pending_polls,
                    created, cb_calls, replaced, frames, ticks>>

(***************************************************************************)
(* StiebelProtocol: write requests                                         *)
(***************************************************************************)
\* signals a caller names: the untyped one, the typed one and an index the
\* catalog does not hold
CallSignals == {5, 294, 513}

\* values a caller writes, as the text write_signal hands to
\* signal_from_value (str(value) for a value that is not text).  For these
\* texts the binary floating-point product float(text) * 10 is exact.
WriteValues ==
  { <<"2", "1", ".", "5">>, <<"-", "5">>, <<"7">>, <<"a", "b", "c">>, << >> }

IsDigit(c) == c \in {"0", "1", "2", "3", "4", "5", "6", "7", "8", "9"}

DigitValue(c) ==
  CASE c = "0" -> 0 [] c = "1" -> 1 [] c = "2" -> 2 [] c = "3" -> 3 [] c = "4" -> 4
    [] c = "5" -> 5 [] c = "6" -> 6 [] c = "7" -> 7 [] c = "8" -> 8 [] c = "9" -> 9

RECURSIVE DigitsValue(_)
DigitsValue(digits) ==
  IF digits = << >> THEN 0
  ELSE DigitsValue(SubSeq(digits, 1, Len(digits) - 1)) * 10 + DigitValue(digits[Len(digits)])

RECURSIVE Pow10(_)
Pow10(n) == IF n = 0 THEN 1 ELSE 10 * Pow10(n - 1)

\* float(string_value) for text made of a sign, digits and a point: the
\* number is sign * mantissa / 10^scale; anything else raises ValueError
ParseFloat(string_value) ==
  LET signed == Len(string_value) > 0 /\ string_value[1] \in {"-", "+"}
      body   == IF signed THEN Tail(string_value) ELSE string_value
      points == {i \in 1..Len(body) : body[i] = "."}
      digits == SelectSeq(body, IsDigit)
      ok     == /\ Len(digits) > 0
                /\ Cardinality(points) <= 1
                /\ \A i \in 1..Len(body) : IsDigit(body[i]) \/ body[i] = "."
  IN IF ~ok THEN [raised |-> TRUE, negative |-> FALSE, mantissa |-> 0, scale |-> 0]
     ELSE [raised   |-> FALSE,
           negative |-> signed /\ string_value[1] = "-",
           mantissa |-> DigitsValue(digits),
           scale    |-> IF points = {} THEN 0 ELSE Len(body) - (CHOOSE i \in points : TRUE)]

\* int(string_value) for text made of a sign and digits
ParseInt(string_value) ==
  LET signed == Len(string_value) > 0 /\ string_value[1] \in {"-", "+"}
      body   == IF signed THEN Tail(string_value) ELSE string_value
      ok     == Len(body) > 0 /\ \A i \in 1..Len(body) : IsDigit(body[i])
  IN IF ~ok THEN [raised |-> TRUE, value |-> 0]
     ELSE [raised |-> FALSE,
           value  |-> IF signed /\ string_value[1] = "-" THEN 0 - DigitsValue(body)
                      ELSE DigitsValue(body)]

\* x & 0xFFFF for an integer x <= 0
Mask16OfNegated(q) == (65536 - (q % 65536)) % 65536

\* an encoder that writes 0 where signal_from_value raises
signal_from_value_zero_on_error(string_value, value_type) ==
  IF value_type = "ET_NONE" THEN [raised |-> FALSE, value |-> 0]
  ELSE LET f == ParseFloat(string_value)
       IN IF f.raised THEN [raised |-> FALSE, value |-> 0]
          ELSE [raised |-> FALSE, value |-> (f.mantissa * 10) \div Pow10(f.scale)]

\* x & 0xFFFF for any integer x
Mask16(x) == IF x >= 0 THEN x % 65536 ELSE Mask16OfNegated(0 - x)

\* elster_table.py MODELIST (lines 161-168); a text is a sequence of pieces,
\* a label is one piece
MODELIST ==
  [code \in 0..5 |->
     CASE code = 0 -> <<"Emergency">> [] code = 1 -> <<"Standby">> [] code = 2 -> <<"Auto mode">>
       [] code = 3 -> <<"Day mode">> [] code = 4 -> <<"Night mode">> [] code = 5 -> <<"Warm Water">>]

\* elster_table.py ERRORLIST (lines 171-196), its first entries
ERRORLIST ==
  [code \in 2..5 |->
     CASE code = 2 -> <<"Contactor stuck">> [] code = 3 -> <<"ERR HD sensor">>
       [] code = 4 -> <<"High pressure">> [] code = 5 -> <<"Evaporator sensor">>]

\* the loop "for code, desc in items: if desc == string_value: return code",
\* with the default 0; dict order is the order of the codes
ReverseLookup(list, string_value) ==
  LET hits == {code \in DOMAIN list : list[code] = string_value}
  IN IF hits = {} THEN 0 ELSE CHOOSE code \in hits : \A other \in hits : code <= other

\* str.lower() of the pieces in use
LowerText(string_value) ==
  [i \in 1..Len(string_value) |->
     CASE string_value[i] = "True" -> "true"
       [] string_value[i] = "ON" -> "on"
       [] OTHER -> string_value[i]]

\* lines 302 and 305: string_value.lower() in ["true", "1", "on", "yes"]
IsTrueText(string_value) ==
  LowerText(string_value) \in {<<"true">>, <<"1">>, <<"on">>, <<"yes">>}

\* int(float(string_value) * factor): the product truncated towards zero,
\* as a signed integer
ScaledInt(string_value, factor) ==
  LET f == ParseFloat(string_value)
      q == (f.mantissa * factor) \div Pow10(f.scale)
  IN IF f.raised THEN [raised |-> TRUE, value |-> 0]
     ELSE [raised |-> FALSE, value |-> IF f.negative THEN 0 - q ELSE q]

\* lines 306-325: the scaled types; a negative product is masked to 16 bits
ScaledValue(string_value, factor) ==
  LET r == ScaledInt(string_value, factor)
  IN IF r.raised THEN r
     ELSE IF r.value < 0
     THEN [raised |-> FALSE, value |-> Mask16(r.value)]
     ELSE r

RECURSIVE Split(_, _)
\* string_value.split(sep)
Split(string_value, sep) ==
  LET seps == {i \in 1..Len(string_value) : string_value[i] = sep}
  IN IF seps = {} THEN <<string_value>>
     ELSE LET i == CHOOSE j \in seps : \A k \in seps : j <= k
          IN <<SubSeq(string_value, 1, i - 1)>>
               \o Split(SubSeq(string_value, i + 1, Len(string_value)), sep)

\* lines 340-349: the ET_DATE branch
DateValue(string_value) ==
  LET parts == Split(string_value, "-")
  IN IF Len(parts) = 3
     THEN LET year  == ParseInt(parts[1])
              month == ParseInt(parts[2])
              day   == ParseInt(parts[3])
          IN IF year.raised \/ month.raised \/ day.raised THEN [raised |-> TRUE, value |-> 0]
             ELSE [raised |-> FALSE, value |-> year.value * 10000 + month.value * 100 + day.value]
     ELSE [raised |-> FALSE, value |-> 0]

\* lines 350-355: the ET_LITTLE_ENDIAN branch
SwapBytes(value) ==
  LET high_byte == (Mask16(value) \div 256) % 256
      low_byte  == (Mask16(value) % 256) * 256
  IN high_byte + low_byte

\* elster_table.py signal_from_value (lines 287-364): the raw value for a
\* text, or raised when the function raises ValueError
signal_from_value(string_value, value_type) ==
  CASE value_type = "ET_NONE" -> [raised |-> TRUE, value |-> 0]
    [] value_type \in {"ET_INTEGER", "ET_BYTE"} -> ParseInt(string_value)
    [] value_type = "ET_BOOLEAN" ->
         [raised |-> FALSE, value |-> IF IsTrueText(string_value) THEN 1 ELSE 0]
    [] value_type = "ET_LITTLE_BOOL" ->
         [raised |-> FALSE, value |-> IF IsTrueText(string_value) THEN 256 ELSE 0]
    [] value_type = "ET_DEC_VAL" -> ScaledValue(string_value, 10)
    [] value_type = "ET_CENT_VAL" -> ScaledValue(string_value, 100)
    [] value_type = "ET_MIL_VAL" -> ScaledValue(string_value, 1000)
    [] value_type = "ET_MODE" -> [raised |-> FALSE, value |-> ReverseLookup(MODELIST, string_value)]
    [] value_type = "ET_ERR_CODE" -> [raised |-> FALSE, value |-> ReverseLookup(ERRORLIST, string_value)]
    [] value_type = "ET_TIME" -> ScaledInt(string_value, 3600)
    [] value_type = "ET_DATE" -> DateValue(string_value)
    [] value_type = "ET_LITTLE_ENDIAN" ->
         LET v == ParseInt(string_value)
         IN IF v.raised THEN v ELSE [raised |-> FALSE, value |-> SwapBytes(v.value)]
    [] OTHER -> ParseInt(string_value)

\* lines 284-310: the payload of a write request
WritePayload(member, index, raw_value) ==
  LET index_byte1 == (index \div 256) % 256
      index_byte2 == index % 256
      value_byte1 == (raw_value \div 256) % 256
      value_byte2 == raw_value % 256
  IN IF index_byte1 = 0
     THEN <<member.write_id[1], member.write_id[2], index_byte2, value_byte1, value_byte2, 0, 0>>
     ELSE <<member.write_id[1], member.write_id[2], 250, index_byte1, index_byte2, value_byte1, value_byte2>>

\* StiebelProtocol.write_signal (lines 256-329).  Every exception is caught
\* at line 327 and turns into False.  After a successful send line 320
\* formats a log message from the name signal_name, which the function does
\* not define (it takes signal_index): NameError is raised before the
\* follow-up read_signal of line 323 is reached.
WriteSignal(member_index, signal_index, value, send_ok) ==
  IF member_index >= Len(can_members)
  THEN [success |-> FALSE, sent |-> << >>, raised |-> "IndexError"]
  ELSE LET member == Member(member_index)
           ei     == get_elster_entry_by_index(signal_index)
           enc    == signal_from_value(value, ei.type)
           frame  == [arbitration_id |-> SourceAddress(member),
                      data |-> WritePayload(member, ei.index, enc.value)]
       IN IF enc.raised THEN [success |-> FALSE, sent |-> << >>, raised |-> "ValueError"]
          ELSE IF send_ok THEN [success |-> FALSE, sent |-> <<frame>>, raised |-> "NameError"]
          ELSE [success |-> FALSE, sent |-> << >>, raised |-> ""]

\* a caller writes a value to a signal of a member
write_signal(member_index, signal_index, value, send_ok) ==
  LET r == WriteSignal(member_index, signal_index, value, send_ok)
  IN /\ last' = [op |-> "write", member_index |-> member_index, signal_index |-> signal_index,
                 value |-> value, send_ok |-> send_ok, success |-> r.success, sent |-> r.sent,
                 raised |-> r.raised]
     /\ UNCHANGED <<thread_vars, gateway_vars, attempts, now, signal_handlers, pending_requests,
                    signal_callbacks, polling_tasks, pending_polls, created, next_cb, cb_calls,
                    evicted, replaced, frames, ticks>>

(***************************************************************************)
(* SignalPoller: update and get_stats                                      *)
(***************************************************************************)
\* lines 159-162 with poll_jitter_seconds set: the values uniform(-jitter,
\* jitter) is drawn from
JitterDraws == (0 - poll_jitter_seconds)..poll_jitter_seconds

\* the cleanup that drops the entry and leaves its handler registered
CleanupPrevious_keep_handler(st, poll_key) ==
  IF poll_key \in DOMAIN st.pending_polls
  THEN [st EXCEPT
          !.replaced = @ \cup {st.pending_polls[poll_key].callback},
          !.pending_polls = DictDel(@, poll_key)]
  ELSE st

\* lines 171-175: the in-flight poll of the task, if there is one, loses its
\* handler and its entry
CleanupPrevious(st, poll_key) ==
  IF poll_key \in DOMAIN st.pending_polls
  THEN [st EXCEPT
          !.signal_callbacks = remove_signal_callback(@, poll_key[2], Member(poll_key[1]).can_id,
                                                      st.pending_polls[poll_key].callback),
          !.replaced = @ \cup {st.pending_polls[poll_key].callback},
          !.pending_polls = DictDel(@, poll_key)]
  ELSE st

\* line 189: the poll count written back
NewPollCount(poll_count, success) == IF success THEN poll_count + 1 ELSE poll_count

\* lines 201-206: the poll is recorded as in flight
TrackPoll(pend, poll_key, success, callback, current_time) ==
  IF success THEN DictSet(pend, poll_key, [request_time |-> current_time, callback |-> callback])
  ELSE pend

\* the schedule check that finds every task due
IsDue_always(current_time, next_poll_time) == TRUE

\* line 168: the schedule check
IsDue(current_time, next_poll_time) == current_time >= next_poll_time

\* one iteration of the loop of update (lines 164-206) for the task at
\* position i of a priority list; jitter_draw is the value of
\* random.uniform, success what read_signal returns
UpdateTask(st, priority, i, jitter_draw, success) ==
  LET task           == st.polling_tasks[priority][i]
      interval       == polling_intervals[priority]
      next_poll_time == task.last_poll_time + interval + jitter_draw
      poll_key       == <<task.member_index, task.signal_index>>
      member         == Member(task.member_index)
      key            == <<member.can_id, task.signal_index>>
  IN IF ~IsDue(now, next_poll_time) THEN st
     ELSE
       LET st1      == CleanupPrevious(st, poll_key)
           callback == <<task.member_index, task.signal_index, st.created[poll_key] + 1>>
           st2      == [st1 EXCEPT !.created[poll_key] = @ + 1,
                                   !.signal_callbacks = add_signal_callback(@, task.signal_index, member.can_id, callback)]
           r        == ReadSignal(pending_requests, task.member_index, task.signal_index, 0, success)
           entry    == [priority     |-> priority,
                        position     |-> i,
                        poll_key     |-> poll_key,
                        callback     |-> callback,
                        success      |-> r.success,
                        sent         |-> r.sent,
                        previous     |-> IF poll_key \in DOMAIN st.pending_polls
                                         THEN {st.pending_polls[poll_key].callback} ELSE {},
                        registered   |-> st2.signal_callbacks[key],
                        in_flight    |-> DOMAIN st2.pending_polls,
                        poll_count   |-> task.poll_count,
                        time         |-> now,
                        previous_attempt |-> st.attempts[poll_key]]
           st3      == [st2 EXCEPT !.sends = Append(@, entry),
                                   !.attempts[poll_key] = [time |-> now, success |-> r.success]]
           st4      == [st3 EXCEPT !.polling_tasks[priority][i] =
                                      [task EXCEPT !.last_poll_time = now,
                                                   !.poll_count = NewPollCount(task.poll_count, r.success)]]
       IN [st4 EXCEPT !.pending_polls = TrackPoll(@, poll_key, r.success, callback, now)]

RECURSIVE UpdateFrom(_, _, _, _)
UpdateFrom(st, k, draws, oks) ==
  IF k > Len(TaskOrder) THEN st
  ELSE UpdateFrom(UpdateTask(st, TaskOrder[k][1], TaskOrder[k][2], draws[k], oks[k]), k + 1, draws, oks)

\* SignalPoller.update (lines 147-206); the poller passes no callback to
\* read_signal, so pending_requests is not touched
update(draws, oks) ==
  LET st0 == [signal_callbacks |-> signal_callbacks, polling_tasks |-> polling_tasks,
              pending_polls |-> pending_polls, created |-> created, replaced |-> replaced,
              attempts |-> attempts, sends |-> << >>]
      st  == UpdateFrom(st0, 1, draws, oks)
  IN /\ \A key \in PollKeys : created[key] < MaxCycles
     /\ signal_callbacks' = st.signal_callbacks
     /\ polling_tasks' = st.polling_tasks
     /\ pending_polls' = st.pending_polls
     /\ created' = st.created
     /\ replaced' = st.replaced
     /\ attempts' = st.attempts
     /\ last' = [op |-> "update", sends |-> st.sends, current_time |-> now,
                 attempts_before |-> attempts, draws |-> draws, tasks_before |-> polling_tasks]
     /\ UNCHANGED <<thread_vars, gateway_vars, now, signal_handlers, pending_requests, next_cb, cb_calls, evicted, frames, ticks>>

\* line 283: the age after which get_stats drops an in-flight poll
StaleTimeout == 60

\* the stale check with a timeout of 600 seconds
StaleKeys_timeout600(pend) == {poll_key \in DOMAIN pend : now - pend[poll_key].request_time > 600}

\* lines 281-287: the in-flight polls get_stats finds stale
StaleKeys(pend) == {poll_key \in DOMAIN pend : now - pend[poll_key].request_time > StaleTimeout}

RECURSIVE ReapFrom(_, _, _)
ReapFrom(cbs, pend, keys) ==
  IF keys = {} THEN cbs
  ELSE LET poll_key == CHOOSE k \in keys : TRUE
       IN ReapFrom(remove_signal_callback(cbs, poll_key[2], Member(poll_key[1]).can_id, pend[poll_key].callback),
                   pend, keys \ {poll_key})

\* lines 293-314 over one priority list
RECURSIVE StatsOfList(_, _, _)
StatsOfList(acc, tasks, i) ==
  IF i > Len(tasks) THEN acc
  ELSE LET t   == tasks[i]
           ent == <<t.member_index, t.signal_index>>
       IN IF t.poll_count > 0
          THEN IF t.response_count > 0
               THEN StatsOfList([acc EXCEPT !.polled = @ \cup {ent}, !.responsive = @ \cup {ent}], tasks, i + 1)
               ELSE StatsOfList([acc EXCEPT !.polled = @ \cup {ent},
                                            !.non_responsive = Append(@, <<Member(t.member_index).name, t.signal_index>>)],
                                tasks, i + 1)
          ELSE StatsOfList(acc, tasks, i + 1)

RECURSIVE StatsFrom(_, _, _)
StatsFrom(acc, tasks_by_priority, p) ==
  IF p > Len(Priorities) THEN acc
  ELSE StatsFrom(StatsOfList(acc, tasks_by_priority[Priorities[p]], 1), tasks_by_priority, p + 1)

\* the dict of get_stats with the polled total reported as responsive total
Stats_responsive_is_polled(tasks_by_priority) ==
  LET acc == StatsFrom([polled |-> {}, responsive |-> {}, non_responsive |-> << >>], tasks_by_priority, 1)
  IN [total_polled_entities        |-> Cardinality(acc.polled),
      total_responsive_entities    |-> Cardinality(acc.polled),
      non_responsive_count         |-> Len(acc.non_responsive),
      non_responsive_entities_list |-> acc.non_responsive]

\* lines 317-322: the dict get_stats returns
Stats(tasks_by_priority) ==
  LET acc == StatsFrom([polled |-> {}, responsive |-> {}, non_responsive |-> << >>], tasks_by_priority, 1)
  IN [total_polled_entities        |-> Cardinality(acc.polled),
      total_responsive_entities    |-> Cardinality(acc.responsive),
      non_responsive_count         |-> Len(acc.non_responsive),
      non_responsive_entities_list |-> acc.non_responsive]

\* SignalPoller.get_stats (lines 271-324)
get_stats ==
  LET stale == StaleKeys(pending_polls)
  IN /\ signal_callbacks' = ReapFrom(signal_callbacks, pending_polls, stale)
     /\ pending_polls' = [k \in (DOMAIN pending_polls) \ stale |-> pending_polls[k]]
     /\ last' = [op |-> "stats", stale |-> stale, stats |-> Stats(polling_tasks)]
     /\ UNCHANGED <<thread_vars, gateway_vars, attempts, now, signal_handlers, pending_requests, polling_tasks, created, next_cb,
                    cb_calls, evicted, replaced, frames, ticks>>

(***************************************************************************)
(* The system                                                              *)
(***************************************************************************)
\* time passes between two operations
Tick(d) ==
  /\ ticks < MaxTicks
  /\ ticks' = ticks + 1
  /\ now' = now + d
  /\ last' = [op |-> "tick", d |-> d]
  /\ UNCHANGED <<thread_vars, gateway_vars, attempts, signal_handlers, pending_requests, signal_callbacks, polling_tasks,
                 pending_polls, created, next_cb, cb_calls, evicted, replaced, frames>>

EmptyDict == [k \in {} |-> 0]

\* no read has been issued for a task yet
NoAttempt == [time |-> -1, success |-> FALSE]

\* the value of a local that holds no task tuple
NoTask == [signal_index |-> 0, member_index |-> 0, last_poll_time |-> 0,
           last_response_time |-> 0, response_count |-> 0, poll_count |-> 0]

\* the value of a local that holds no closure
NoCallback == <<0, 0, 0>>

\* the main loop is between two calls of update; the locals of update:
\* current_time (line 153), the position k in the loops of line 156 and 164,
\* the tuple unpacked at line 164, prev_callback (line 172),
\* response_callback (line 178), success (line 185); last_poller_check is
\* the local of _update_loop (main.py line 319)
MainIdle ==
  [pc |-> "idle", current_time |-> 0, k |-> 0, task |-> NoTask, prev_callback |-> NoCallback,
   callback |-> NoCallback, success |-> FALSE, last_poller_check |-> 0,
   attempts_before |-> [key \in PollKeys |-> NoAttempt]]

\* the receive thread waits in bus.recv; the locals of the dispatch: the
\* arguments of _process_callbacks, the position i of its loop, the closure h
\* being run and the locals of the closure: current_time (line 243), the
\* position (p, pos) and the tuple of the loops of lines 247-248,
\* callback_ref (line 264)
RecvIdle ==
  [pc |-> "idle", signal_index |-> 0, can_id |-> 0, i |-> 0, h |-> NoCallback,
   current_time |-> 0, p |-> 0, pos |-> 0, task |-> NoTask, callback_ref |-> NoCallback]

\* the state after StiebelProtocol.__init__, CanInterface.__init__ and
\* SignalPoller.__init__
Init ==
  /\ now = StartTime
  /\ signal_handlers = <<"iface">>
  /\ pending_requests = EmptyDict
  /\ signal_callbacks = EmptyDict
  /\ polling_tasks = load_config
  /\ pending_polls = EmptyDict
  /\ created = [key \in PollKeys |-> 0]
  /\ next_cb = 0
  /\ cb_calls = [c \in 1..MaxCallbacks |-> 0]
  /\ evicted = {}
  /\ replaced = {}
  /\ frames = 0
  /\ ticks = 0
  /\ attempts = [key \in PollKeys |-> NoAttempt]
  /\ main_thread = MainIdle
  /\ recv_thread = RecvIdle
  /\ answered = {}
  /\ polled_signals = EmptyDict
  /\ pending_commands = EmptyDict
  /\ entity_map = EmptyDict
  /\ commanded = EmptyDict
  /\ last = [op |-> "init"]

\* The protocol engine with its callers and observers; the poller is not
\* ticking (the scanner and the tests run the engine without a poller).
NextProtocol ==
  \/ \E msg \in RxFrames, cb_raises \in BOOLEAN, bad \in SUBSET ExtHandlers :
        process_can_message(msg, cb_raises, bad)
  \/ \E handler \in ExtHandlers : add_signal_handler(handler)
  \/ \E handler \in ExtHandlers : remove_signal_handler(handler)
  \/ \E member_index \in ReadMembers, signal_index \in ReadSignals, send_ok \in BOOLEAN :
        read_signal(member_index, signal_index, send_ok)

SpecProtocol == Init /\ [][NextProtocol]_vars

\* The poller on top of the engine: the main loop calls update and
\* get_stats, the receive thread delivers frames, time passes.  Only
\* CanInterface._on_signal_update observes the engine.
NextPoller ==
  \/ \E d \in TimeSteps : Tick(d)
  \/ \E msg \in PollerFrames : process_can_message(msg, FALSE, {})
  \/ \E draws \in [1..Len(TaskOrder) -> JitterDraws], oks \in [1..Len(TaskOrder) -> BOOLEAN] :
        update(draws, oks)
  \/ get_stats

SpecPoller == Init /\ [][NextPoller]_vars

(***************************************************************************)
(* SignalGateway: process_signal and handle_command                        *)
(***************************************************************************)
\* the gateway is built with the filter of unsolicited signals switched on
ignore_unsolicited_signals == TRUE

\* EntityConfig.permissive_signal_handling, its default
permissive_signal_handling == FALSE

\* signal_gateway.py line 66
polled_signal_timeout == 300

\* str.lower() of the member and signal names in use
Lower(name) ==
  CASE name = "BOILER" -> "boiler"
    [] name = "MANAGER" -> "manager"
    [] name = "OUTSIDE_TEMP" -> "outside_temp"
    [] name = "ERROR_MESSAGE" -> "error_message"
    [] name = "INDEX_NOT_FOUND" -> "index_not_found"
    [] OTHER -> name

\* the entity id f"{member_name.lower()}_{signal_id}", kept as its two parts
EntityId(member_name, signal_name) == <<Lower(member_name), Lower(signal_name)>>

\* EntityConfig.entities: one commandable entity, for the typed signal
entity_config ==
  [entity_id \in {EntityId("BOILER", "OUTSIDE_TEMP")} |->
     [signal |-> "OUTSIDE_TEMP", can_member |-> "BOILER"]]

\* entity ids commands arrive for: the configured ones and one without
\* configuration
CommandEntities == (DOMAIN entity_config) \cup {EntityId("MANAGER", "OUTSIDE_TEMP")}

\* command payloads: a number and the empty payload
CommandPayloads == { <<"7">>, << >> }

\* values process_signal receives
SignalValues == {7, 245}

\* the clock steps of the gateway: a pause inside the polled-signal timeout
\* and one longer than it
GatewayTimeSteps == {200, 301}

RECURSIVE str(_)
\* str(value) of a non-negative integer, as a sequence of digits
str(value) ==
  LET digit == <<"0", "1", "2", "3", "4", "5", "6", "7", "8", "9">>[(value % 10) + 1]
  IN IF value < 10 THEN <<digit>> ELSE Append(str(value \div 10), digit)

\* SignalGateway.get_can_member_name (lines 252-269) with the fallback of
\* process_signal line 104
get_can_member_name(can_id) ==
  LET hits == {i \in 1..Len(can_members) : can_members[i].can_id = can_id}
  IN IF hits = {} THEN "device"
     ELSE can_members[CHOOSE i \in hits : \A j \in hits : i <= j].name

\* CanInterface.get_can_id_by_name (lines 208-221); -1 is None
get_can_id_by_name(member_name) ==
  LET hits == {i \in 1..Len(can_members) : can_members[i].name = member_name}
  IN IF hits = {} THEN -1
     ELSE can_members[CHOOSE i \in hits : \A j \in hits : i <= j].can_id

\* a filter that lets every signal through
FilterUnsolicited_accept_all(polled, signal_index) ==
  [is_unsolicited |-> FALSE, polled_signals |-> polled]

\* lines 116-138: the filter of unsolicited signals on polled_signals
FilterUnsolicited(polled, signal_index) ==
  IF ~ignore_unsolicited_signals THEN [is_unsolicited |-> FALSE, polled_signals |-> polled]
  ELSE IF signal_index \in DOMAIN polled
  THEN IF now - polled[signal_index] > polled_signal_timeout
       THEN [is_unsolicited |-> TRUE, polled_signals |-> DictDel(polled, signal_index)]
       ELSE [is_unsolicited |-> FALSE, polled_signals |-> DictSet(polled, signal_index, now)]
  ELSE [is_unsolicited |-> TRUE, polled_signals |-> polled]

\* EntityRegistrationService.register_dynamic_entity (lines 331-517):
\* refused for an ET_NONE signal unless permissive; otherwise the discovery
\* message is published (publish_ok) and the mapping is added
RegisterDynamic(map, signal_name, member_name, publish_ok) ==
  LET elster_entry == get_elster_entry_by_english_name(signal_name)
      entity_id    == EntityId(member_name, signal_name)
  IN IF elster_entry.type = "ET_NONE" /\ ~permissive_signal_handling
     THEN [entity_id |-> << >>, entity_map |-> map, registered |-> FALSE]
     ELSE IF publish_ok
     THEN [entity_id |-> entity_id,
           entity_map |-> DictSet(map, <<signal_name, member_name>>, entity_id),
           registered |-> TRUE]
     ELSE [entity_id |-> << >>, entity_map |-> map, registered |-> FALSE]

\* SignalGateway.process_signal (lines 82-190).  connected is what
\* mqtt_interface.is_connected returns, publish_ok what the discovery
\* publish returns.  For a signal that passes every check _transform_value
\* (line 173) reads elster_entry.ha_entity_type in _get_signal_type (line
\* 242), an attribute ElsterEntry does not have: AttributeError is raised
\* before publish_state (line 177) is reached.
process_signal(signal_index, value, can_id, connected, publish_ok) ==
  LET member_name  == get_can_member_name(can_id)
      signal_name  == get_elster_entry_by_index(signal_index).english_name
      filter       == FilterUnsolicited(polled_signals, signal_index)
      known        == <<signal_name, member_name>> \in DOMAIN entity_map
      reg          == IF known
                      THEN [entity_id |-> entity_map[<<signal_name, member_name>>],
                            entity_map |-> entity_map, registered |-> FALSE]
                      ELSE RegisterDynamic(entity_map, signal_name, member_name, publish_ok)
      echo         == /\ reg.entity_id \in DOMAIN pending_commands
                      /\ str(value) = pending_commands[reg.entity_id]
      outcome      == IF ~connected THEN "not_connected"
                      ELSE IF filter.is_unsolicited THEN "unsolicited"
                      ELSE IF reg.entity_id = << >> THEN "not_registered"
                      ELSE IF echo THEN "echo"
                      ELSE "AttributeError"
  IN /\ polled_signals' = IF connected THEN filter.polled_signals ELSE polled_signals
     /\ entity_map' = IF outcome \in {"not_connected", "unsolicited"} THEN entity_map
                      ELSE reg.entity_map
     /\ pending_commands' = IF outcome = "echo" THEN DictDel(pending_commands, reg.entity_id)
                            ELSE pending_commands
     /\ last' = [op |-> "process_signal", signal_index |-> signal_index, value |-> value,
                 can_id |-> can_id, connected |-> connected, publish_ok |-> publish_ok,
                 outcome |-> outcome,
                 registered |-> outcome \notin {"not_connected", "unsolicited"} /\ reg.registered,
                 published |-> FALSE]
     /\ UNCHANGED <<thread_vars, commanded, attempts, now, signal_handlers, pending_requests,
                    signal_callbacks, polling_tasks, pending_polls, created, next_cb, cb_calls,
                    evicted, replaced, frames, ticks>>

\* SignalGateway.handle_command (lines 192-216) with
\* CommandHandler.get_signal_info_for_entity (lines 348-385) and
\* CommandHandler.handle_command (lines 45-117); the gateway builds the
\* handler without controls_config.  send_ok is what the transport returns
\* for the write frame.
handle_command(entity_id, command, send_ok) ==
  LET configured   == entity_id \in DOMAIN entity_config
      entity_def   == entity_config[entity_id]
      signal_index == get_elster_entry_by_english_name(entity_def.signal).index
      can_id       == get_can_id_by_name(entity_def.can_member)
      accepted     == configured /\ command # << >> /\ can_id # -1
      member_index == MemberIndexOfCanId(can_id)
      w            == IF accepted THEN WriteSignal(member_index, signal_index, command, send_ok)
                      ELSE [success |-> FALSE, sent |-> << >>, raised |-> ""]
  IN /\ polled_signals' = IF configured THEN DictSet(polled_signals, signal_index, now)
                          ELSE polled_signals
     /\ commanded' = IF configured THEN DictSet(commanded, signal_index, [time |-> now, command |-> command])
                     ELSE commanded
     /\ pending_commands' = IF accepted THEN DictSet(pending_commands, entity_id, command)
                            ELSE pending_commands
     /\ last' = [op |-> "command", entity_id |-> entity_id, command |-> command,
                 marked |-> IF configured THEN {signal_index} ELSE {}, sent |-> w.sent]
     /\ UNCHANGED <<thread_vars, entity_map, attempts, now, signal_handlers, pending_requests,
                    signal_callbacks, polling_tasks, pending_polls, created, next_cb, cb_calls,
                    evicted, replaced, frames, ticks>>

\* the clock of the gateway
gateway_tick(d) ==
  /\ ticks < MaxTicks
  /\ ticks' = ticks + 1
  /\ now' = now + d
  /\ last' = [op |-> "tick", d |-> d]
  /\ UNCHANGED <<thread_vars, gateway_vars, attempts, signal_handlers, pending_requests,
                 signal_callbacks, polling_tasks, pending_polls, created, next_cb, cb_calls,
                 evicted, replaced, frames>>

\* The gateway between the receive path and MQTT: values arrive, commands
\* arrive, time passes.  The poller does not run here.
NextGateway ==
  \/ \E d \in GatewayTimeSteps : gateway_tick(d)
  \/ \E signal_index \in RxIndices, value \in SignalValues, can_id \in RxIds,
        connected \in BOOLEAN, publish_ok \in BOOLEAN :
        process_signal(signal_index, value, can_id, connected, publish_ok)
  \/ \E entity_id \in CommandEntities, command \in CommandPayloads, send_ok \in BOOLEAN :
        handle_command(entity_id, command, send_ok)

SpecGateway == Init /\ [][NextGateway]_vars

\* The gateway next to the poller: the main loop calls update, values
\* reach process_signal, time passes
NextFilter ==
  \/ \E d \in GatewayTimeSteps : gateway_tick(d)
  \/ \E draws \in [1..Len(TaskOrder) -> JitterDraws], oks \in [1..Len(TaskOrder) -> BOOLEAN] :
        update(draws, oks)
  \/ \E signal_index \in RxIndices, can_id \in RxIds, connected \in BOOLEAN, publish_ok \in BOOLEAN :
        process_signal(signal_index, 245, can_id, connected, publish_ok)

SpecFilter == Init /\ [][NextFilter]_vars

(***************************************************************************)
(* The codec and the catalog lookups as functions of their arguments       *)
(***************************************************************************)
\* elster_table.py ElsterType (lines 20-37), the types the catalog uses
ValueTypes ==
  {"ET_NONE", "ET_INTEGER", "ET_BYTE", "ET_BOOLEAN", "ET_LITTLE_BOOL", "ET_DEC_VAL",
   "ET_CENT_VAL", "ET_MIL_VAL", "ET_MODE", "ET_ERR_CODE", "ET_TIME", "ET_DATE",
   "ET_LITTLE_ENDIAN", "ET_TIME_DOMAIN", "ET_DEV_NR"}

\* raw values handed to value_from_signal: 0, 0x00F5, 0x8000, 0xFFCE, 0xFFFF
DecodeRaws == {0, 245, 32768, 65486, 65535}

\* texts handed to signal_from_value: decimal numbers (their products with
\* 10, 100, 1000 and 3600 are exact in binary floating point), text that is
\* no number, dates with three and with two parts, labels
EncodeTexts ==
  { <<"2", "1", ".", "5">>, <<"-", "5">>, <<"7">>, <<"7", "0", "0", "0", "0">>,
    <<"a", "b", "c">>, << >>,
    <<"2", "0", "2", "4", "-", "0", "1", "-", "1", "5">>, <<"2", "0", "2", "4", "-", "0", "1">>,
    <<"ON">>, <<"Standby">>, <<"ERR HD sensor">> }

\* what the codec functions leave alone: everything but the record of the call
codec_untouched ==
  <<thread_vars, gateway_vars, attempts, now, signal_handlers, pending_requests,
    signal_callbacks, polling_tasks, pending_polls, created, next_cb, cb_calls, evicted,
    replaced, frames, ticks>>

\* a call of value_from_signal
decode(raw, value_type) ==
  LET r == value_from_signal(raw, value_type)
  IN /\ last' = [op |-> "decode", raw |-> raw, value_type |-> value_type,
                 raised |-> r.raised, value |-> r.value]
     /\ UNCHANGED codec_untouched

\* a call of signal_from_value
encode(string_value, value_type) ==
  LET r == signal_from_value(string_value, value_type)
  IN /\ last' = [op |-> "encode", string_value |-> string_value, value_type |-> value_type,
                 raised |-> r.raised, value |-> r.value]
     /\ UNCHANGED codec_untouched

\* value_from_signal, signal_from_value of the text of its result, and
\* value_from_signal again
round_trip(raw, value_type) ==
  LET x     == value_from_signal(raw, value_type)
      e     == IF x.raised THEN [raised |-> TRUE, value |-> 0]
               ELSE signal_from_value(str(x.value), value_type)
      again == IF e.raised THEN [raised |-> TRUE, value |-> 0]
               ELSE value_from_signal(e.value, value_type)
  IN /\ last' = [op |-> "round_trip", raw |-> raw, value_type |-> value_type,
                 decode_raised |-> x.raised, decoded |-> x.value,
                 encode_raised |-> e.raised, encoded |-> e.value,
                 again_raised |-> again.raised, again |-> again.value]
     /\ UNCHANGED codec_untouched

\* load_elster_signals_from_yaml lines 83-85: the catalog when the file is
\* missing or cannot be read
fallback_signals ==
  << [name |-> "INDEX_NOT_FOUND", english_name |-> "INDEX_NOT_FOUND", index |-> 0, type |-> "ET_NONE"] >>

\* catalogs load_elster_signals_from_yaml can return: the one of the model,
\* the fallback, a file whose first entry is a typed signal, a file with an
\* empty list
Catalogs ==
  { ELSTER_TABLE,
    fallback_signals,
    << ELSTER_TABLE[3], ELSTER_TABLE[2] >>,
    << >> }

NoEntry == [name |-> "", english_name |-> "", index |-> -1, type |-> ""]

\* dict.get(key, table[0]) on the dict {entry[field]: entry for entry in
\* table}: a later entry overwrites an earlier one with the same key, and
\* the default table[0] is evaluated before the lookup (IndexError on an
\* empty table)
Lookup(table, field, key) ==
  LET hits == {i \in 1..Len(table) : table[i][field] = key}
  IN IF table = << >> THEN [raised |-> TRUE, entry |-> NoEntry]
     ELSE IF hits = {} THEN [raised |-> FALSE, entry |-> table[1]]
     ELSE [raised |-> FALSE, entry |-> table[CHOOSE i \in hits : \A j \in hits : j <= i]]

\* the keys of the three lookups
LookupKeys(field) ==
  IF field = "index" THEN {0, 5, 294, 513}
  ELSE IF field = "name" THEN {"FEHLERMELDUNG", "AUSSENTEMP", "KEIN_SIGNAL"}
  ELSE {"ERROR_MESSAGE", "OUTSIDE_TEMP", "NO_SIGNAL"}

\* a call of get_elster_entry_by_index, get_elster_entry_by_name or
\* get_elster_entry_by_english_name on a loaded catalog
lookup(table, field, key) ==
  LET r == Lookup(table, field, key)
  IN /\ last' = [op |-> "lookup", table |-> table, field |-> field, key |-> key,
                 raised |-> r.raised, entry |-> r.entry]
     /\ UNCHANGED codec_untouched

\* signal indices a write payload is built for: standard ones (0x05, 0xFA,
\* 0xFF) and extended ones (0x100, 0x126, 0x1FFF)
PayloadIndices == {5, 250, 255, 256, 294, 8191}

\* raw values a write payload carries: 0, 0x00F5, 0xFFCE, 0xFFFF
PayloadRaws == {0, 245, 65486, 65535}

\* the payload write_signal builds for a signal index and a raw value
\* (protocol.py lines 284-310), handed to the parser of the receive path
\* (lines 125-141)
payload_round_trip(member_index, index, raw_value) ==
  LET data   == WritePayload(Member(member_index), index, raw_value)
      parsed == ParseFrame(data)
  IN /\ last' = [op |-> "payload_round_trip", member_index |-> member_index, index |-> index,
                 raw_value |-> raw_value, data |-> data, short |-> IsShort(data),
                 parsed_index |-> parsed.index, parsed_raw |-> parsed.raw]
     /\ UNCHANGED codec_untouched

NextCodec ==
  \/ \E index \in PayloadIndices, raw_value \in PayloadRaws : payload_round_trip(1, index, raw_value)
  \/ \E raw \in DecodeRaws, value_type \in ValueTypes : decode(raw, value_type)
  \/ \E string_value \in EncodeTexts, value_type \in ValueTypes : encode(string_value, value_type)
  \/ \E raw \in DecodeRaws, value_type \in ValueTypes : round_trip(raw, value_type)
  \/ \E table \in Catalogs, field \in {"index", "name", "english_name"} :
        \E key \in LookupKeys(field) : lookup(table, field, key)

SpecCodec == Init /\ [][NextCodec]_vars

\* members a caller names: BOILER, MANAGER and an index past the end of the
\* member list
CallMembers == {1, 4, 8}

\* The callers of the engine: reads with a callback and writes, for members
\* and signals inside and outside the member list and the catalog
NextCalls ==
  \/ \E member_index \in CallMembers, signal_index \in CallSignals, send_ok \in BOOLEAN :
        read_signal(member_index, signal_index, send_ok)
  \/ \E member_index \in CallMembers, signal_index \in CallSignals, value \in WriteValues,
        send_ok \in BOOLEAN :
        write_signal(member_index, signal_index, value, send_ok)

SpecCalls == Init /\ [][NextCalls]_vars

\* The engine with callers that pass callbacks, under the main loop's
\* schedule: _update_loop (main.py:311-366) never stops calling get_stats
\* and the clock never stops while its bound allows.
NextLive ==
  \/ \E d \in TimeSteps : Tick(d)
  \/ \E msg \in RxFrames : process_can_message(msg, FALSE, {})
  \/ \E member_index \in ReadMembers, signal_index \in ReadSignals, send_ok \in BOOLEAN :
        read_signal(member_index, signal_index, send_ok)
  \/ get_stats

SpecLive ==
  /\ Init
  /\ [][NextLive]_vars
  /\ WF_vars(get_stats)
  /\ WF_vars(\E d \in TimeSteps : Tick(d))

(***************************************************************************)
(* The two threads, statement by statement                                 *)
(***************************************************************************)
\* The main loop (main.py, _update_loop) calls SignalPoller.update while the
\* receive thread (CanTransport._receive_messages) dispatches frames to the
\* response closures.  Neither module takes a lock, so the statements of the
\* two threads interleave.  The position of a thread is the source line it
\* executes next.

\* how far the clock moves between two statements: the main loop runs once
\* a second
ThreadTimeSteps == {1, 3}

\* what a statement leaves in last when no property looks at its effect
Statement == [op |-> "statement"]

\* the clock moves while the main loop sleeps between two iterations
\* (main.py, time.sleep(0.2)) and the receive thread waits for a frame; the
\* statements of update and of the dispatch take no time
sleep(d) == main_thread.pc = "idle" /\ recv_thread.pc = "idle" /\ Tick(d)

\* what no statement of update and no statement of the dispatch writes
untouched_by_threads == <<signal_handlers, next_cb, evicted, ticks, now, gateway_vars>>

\* update has sent the read of the poll with this closure (lines 178-185)
\* and has not yet recorded the poll (lines 189-206)
Recording(h) ==
  /\ main_thread.pc \in {"l189", "l202"}
  /\ main_thread.callback = h
  /\ main_thread.success

\* the task tuple and the interval of position k of the loops of update
TaskAt(k) == polling_tasks[TaskOrder[k][1]][TaskOrder[k][2]]

\* line 157: the interval of a poll key
IntervalFor(poll_key) ==
  LET k == CHOOSE n \in 1..Len(TaskOrder) :
             LET t == load_config[TaskOrder[n][1]][TaskOrder[n][2]]
             IN <<t.member_index, t.signal_index>> = poll_key
  IN polling_intervals[TaskOrder[k][1]]

\* main.py lines 325-329 and signal_poller.py line 153: the main loop calls
\* update when a second has passed since the last call; update reads the
\* clock
update_enter ==
  /\ main_thread.pc = "idle"
  /\ now - main_thread.last_poller_check >= 1
  /\ \A key \in PollKeys : created[key] < MaxCycles
  /\ main_thread' = [main_thread EXCEPT !.pc = "l164", !.current_time = now, !.k = 1,
                                        !.attempts_before = attempts]
  /\ last' = Statement
  /\ UNCHANGED <<untouched_by_threads, answered, recv_thread, frames, attempts, pending_requests, cb_calls,
                 signal_callbacks, polling_tasks, pending_polls, created, replaced>>

\* lines 164-168: the tuple of the next task is unpacked and its schedule
\* compared with the clock reading
update_task(jitter_draw) ==
  /\ main_thread.pc = "l164"
  /\ main_thread.k <= Len(TaskOrder)
  /\ LET priority       == TaskOrder[main_thread.k][1]
         task           == TaskAt(main_thread.k)
         next_poll_time == task.last_poll_time + polling_intervals[priority] + jitter_draw
     IN /\ main_thread' = IF main_thread.current_time >= next_poll_time
                          THEN [main_thread EXCEPT !.pc = "l171", !.task = task]
                          ELSE [main_thread EXCEPT !.k = @ + 1]
        /\ last' = Statement
  /\ UNCHANGED <<untouched_by_threads, answered, recv_thread, frames, attempts, pending_requests, cb_calls,
                 signal_callbacks, polling_tasks, pending_polls, created, replaced>>

\* the loops of lines 156 and 164 are exhausted: update returns (main.py
\* line 330 notes the time of the call)
update_return ==
  /\ main_thread.pc = "l164"
  /\ main_thread.k > Len(TaskOrder)
  /\ main_thread' = [MainIdle EXCEPT !.last_poller_check = main_thread.current_time]
  /\ last' = [op |-> "update_return", current_time |-> main_thread.current_time,
              attempts_before |-> main_thread.attempts_before]
  /\ UNCHANGED <<untouched_by_threads, answered, recv_thread, frames, attempts, pending_requests, cb_calls,
                 signal_callbacks, polling_tasks, pending_polls, created, replaced>>

\* lines 170-172: is a poll of the task in flight
update_check_pending ==
  /\ main_thread.pc = "l171"
  /\ LET poll_key == <<main_thread.task.member_index, main_thread.task.signal_index>>
     IN main_thread' = IF poll_key \in DOMAIN pending_polls
                       THEN [main_thread EXCEPT !.pc = "l173",
                                                !.prev_callback = pending_polls[poll_key].callback]
                       ELSE [main_thread EXCEPT !.pc = "l178"]
  /\ last' = Statement
  /\ UNCHANGED <<untouched_by_threads, answered, recv_thread, frames, attempts, pending_requests, cb_calls,
                 signal_callbacks, polling_tasks, pending_polls, created, replaced>>

\* lines 173-174: the handler of the in-flight poll is deregistered
update_remove_previous ==
  /\ main_thread.pc = "l173"
  /\ signal_callbacks' = remove_signal_callback(signal_callbacks, main_thread.task.signal_index,
                                                Member(main_thread.task.member_index).can_id,
                                                main_thread.prev_callback)
  /\ replaced' = replaced \cup {main_thread.prev_callback}
  /\ main_thread' = [main_thread EXCEPT !.pc = "l175"]
  /\ last' = Statement
  /\ UNCHANGED <<untouched_by_threads, answered, recv_thread, frames, attempts, pending_requests, cb_calls,
                 polling_tasks, pending_polls, created>>

\* line 175: del self.pending_polls[poll_key].  When the entry is gone the
\* statement raises KeyError; update has no except clause, the exception
\* reaches _update_loop (main.py, except Exception: self.stop()) and the main
\* loop ends.
update_del_pending ==
  /\ main_thread.pc = "l175"
  /\ LET poll_key == <<main_thread.task.member_index, main_thread.task.signal_index>>
     IN IF poll_key \in DOMAIN pending_polls
        THEN /\ pending_polls' = DictDel(pending_polls, poll_key)
             /\ main_thread' = [main_thread EXCEPT !.pc = "l178"]
             /\ last' = Statement
        ELSE /\ pending_polls' = pending_polls
             /\ main_thread' = [main_thread EXCEPT !.pc = "raised"]
             /\ last' = [op |-> "update_raised", current_time |-> main_thread.current_time,
                         attempts_before |-> main_thread.attempts_before]
  /\ UNCHANGED <<untouched_by_threads, answered, recv_thread, frames, attempts, pending_requests, cb_calls,
                 signal_callbacks, polling_tasks, created, replaced>>

\* lines 178-185: the closure is created and registered and the read is
\* sent; success is what read_signal returns
update_send(success) ==
  /\ main_thread.pc = "l178"
  /\ LET task     == main_thread.task
         poll_key == <<task.member_index, task.signal_index>>
         member   == Member(task.member_index)
         callback == <<task.member_index, task.signal_index, created[poll_key] + 1>>
         cbs      == add_signal_callback(signal_callbacks, task.signal_index, member.can_id, callback)
         r        == ReadSignal(pending_requests, task.member_index, task.signal_index, 0, success)
     IN /\ created' = [created EXCEPT ![poll_key] = @ + 1]
        /\ signal_callbacks' = cbs
        /\ attempts' = [attempts EXCEPT ![poll_key] = [time |-> main_thread.current_time, success |-> r.success]]
        /\ main_thread' = [main_thread EXCEPT !.pc = "l189", !.callback = callback, !.success = r.success]
        /\ last' = [op |-> "update_send",
                    send |-> [priority     |-> TaskOrder[main_thread.k][1],
                              position     |-> TaskOrder[main_thread.k][2],
                              poll_key     |-> poll_key,
                              callback     |-> callback,
                              success      |-> r.success,
                              sent         |-> r.sent,
                              previous     |-> {main_thread.prev_callback} \ {NoCallback},
                              registered   |-> cbs[<<member.can_id, task.signal_index>>],
                              in_flight    |-> DOMAIN pending_polls,
                              poll_count   |-> task.poll_count,
                              time         |-> main_thread.current_time,
                              previous_attempt |-> attempts[poll_key]]]
  /\ UNCHANGED <<untouched_by_threads, answered, recv_thread, frames, pending_requests, cb_calls,
                 polling_tasks, pending_polls, replaced>>

\* lines 189-199: the tuple unpacked at line 164 is written back with the
\* new poll time and poll count
update_write_task ==
  /\ main_thread.pc = "l189"
  /\ polling_tasks' = [polling_tasks EXCEPT ![TaskOrder[main_thread.k][1]][TaskOrder[main_thread.k][2]] =
                         [main_thread.task EXCEPT
                            !.last_poll_time = main_thread.current_time,
                            !.poll_count = NewPollCount(main_thread.task.poll_count, main_thread.success)]]
  /\ main_thread' = [main_thread EXCEPT !.pc = "l202"]
  /\ last' = Statement
  /\ UNCHANGED <<untouched_by_threads, answered, recv_thread, frames, attempts, pending_requests, cb_calls,
                 signal_callbacks, pending_polls, created, replaced>>

\* lines 202-206: the poll is recorded as in flight; the loop goes on
update_track ==
  /\ main_thread.pc = "l202"
  /\ pending_polls' = TrackPoll(pending_polls,
                                <<main_thread.task.member_index, main_thread.task.signal_index>>,
                                main_thread.success, main_thread.callback, main_thread.current_time)
  /\ main_thread' = [main_thread EXCEPT !.pc = "l164", !.k = @ + 1, !.task = NoTask,
                                        !.prev_callback = NoCallback, !.callback = NoCallback,
                                        !.success = FALSE]
  /\ last' = Statement
  /\ UNCHANGED <<untouched_by_threads, answered, recv_thread, frames, attempts, pending_requests, cb_calls,
                 signal_callbacks, polling_tasks, created, replaced>>

\* _process_can_message up to the call of the handlers (protocol.py lines
\* 115-159) and _on_signal_update up to the lookup of the callback list
\* (interface.py lines 98-107) for one frame; the pending callback of a
\* matched request returns normally
ReceiveFront(msg) ==
  LET can_id == msg.arbitration_id
      data   == msg.data
      drop   == [pending_requests |-> pending_requests, cb_calls |-> cb_calls,
                 dispatch |-> FALSE, signal_index |-> 0]
  IN IF IsShort(data) THEN drop
     ELSE
       LET parsed      == ParseFrame(data)
           ei          == get_elster_entry_by_index(parsed.index)
           typed       == value_from_signal(parsed.raw, ei.type)
           request_key == <<can_id, parsed.index>>
           matched     == request_key \in DOMAIN pending_requests
       IN IF typed.raised THEN drop
          ELSE [pending_requests |-> IF matched THEN DictDel(pending_requests, request_key)
                                     ELSE pending_requests,
                cb_calls         |-> IF matched
                                     THEN [cb_calls EXCEPT ![pending_requests[request_key].callback] = @ + 1]
                                     ELSE cb_calls,
                dispatch         |-> /\ InList("iface", signal_handlers)
                                     /\ <<can_id, ei.index>> \in DOMAIN signal_callbacks,
                signal_index     |-> ei.index]

\* the receive thread takes a frame from the bus and processes it up to the
\* loop over the signal-specific callbacks (interface.py line 107)
recv_frame(msg) ==
  LET r == ReceiveFront(msg)
  IN /\ recv_thread.pc = "idle"
     /\ frames < MaxFrames
     /\ frames' = frames + 1
     /\ pending_requests' = r.pending_requests
     /\ cb_calls' = r.cb_calls
     /\ recv_thread' = IF r.dispatch
                       THEN [RecvIdle EXCEPT !.pc = "l107", !.signal_index = r.signal_index,
                                             !.can_id = msg.arbitration_id, !.i = 1]
                       ELSE RecvIdle
     /\ last' = Statement
     /\ UNCHANGED <<untouched_by_threads, answered, main_thread, attempts, signal_callbacks, polling_tasks,
                    pending_polls, created, replaced>>

\* the callback list of the frame being dispatched (the loop of line 107
\* walks the list object itself)
DispatchList == DictGetList(signal_callbacks, <<recv_thread.can_id, recv_thread.signal_index>>)

\* interface.py lines 107-108 and 117, signal_poller.py lines 229-243: the
\* loop takes the next callback of the list and calls it; the closure
\* returns at once unless signal and member are its own
recv_next_callback ==
  /\ recv_thread.pc = "l107"
  /\ recv_thread.i <= Len(DispatchList)
  /\ LET h == DispatchList[recv_thread.i]
     IN /\ recv_thread' = IF recv_thread.signal_index # h[2]
                             \/ MemberIndexOfCanId(recv_thread.can_id) # h[1]
                          THEN [recv_thread EXCEPT !.i = @ + 1]
                          ELSE [recv_thread EXCEPT !.i = @ + 1, !.h = h, !.current_time = now,
                                                   !.p = 1, !.pc = "l247"]
        /\ last' = Statement
  /\ UNCHANGED <<untouched_by_threads, answered, main_thread, frames, attempts, pending_requests, cb_calls,
                 signal_callbacks, polling_tasks, pending_polls, created, replaced>>

\* the loop of line 107 is exhausted: the dispatch is over
recv_dispatch_done ==
  /\ recv_thread.pc = "l107"
  /\ recv_thread.i > Len(DispatchList)
  /\ recv_thread' = RecvIdle
  /\ last' = Statement
  /\ UNCHANGED <<untouched_by_threads, answered, main_thread, frames, attempts, pending_requests, cb_calls,
                 signal_callbacks, polling_tasks, pending_polls, created, replaced>>

\* the priority lists from position p on that hold a task of the closure
MatchingLists(p, h) ==
  {q \in p..Len(Priorities) : FirstTask(polling_tasks[Priorities[q]], h[2], h[1]) # 0}

\* lines 247-249: the loops reach the next tuple of the closure's task and
\* unpack it
recv_read_task ==
  /\ recv_thread.pc = "l247"
  /\ LET lists == MatchingLists(recv_thread.p, recv_thread.h)
     IN IF lists = {}
        THEN recv_thread' = [recv_thread EXCEPT !.pc = "l262"]
        ELSE LET q   == CHOOSE x \in lists : \A y \in lists : x <= y
                 pos == FirstTask(polling_tasks[Priorities[q]], recv_thread.h[2], recv_thread.h[1])
             IN recv_thread' = [recv_thread EXCEPT !.pc = "l251", !.p = q, !.pos = pos,
                                                   !.task = polling_tasks[Priorities[q]][pos]]
  /\ last' = Statement
  /\ UNCHANGED <<untouched_by_threads, answered, main_thread, frames, attempts, pending_requests, cb_calls,
                 signal_callbacks, polling_tasks, pending_polls, created, replaced>>

\* lines 251-259: the unpacked tuple is written back with the response time
\* and one more response
recv_write_task ==
  /\ recv_thread.pc = "l251"
  /\ polling_tasks' = [polling_tasks EXCEPT ![Priorities[recv_thread.p]][recv_thread.pos] =
                         [recv_thread.task EXCEPT !.last_response_time = recv_thread.current_time,
                                                  !.response_count = @ + 1]]
  /\ recv_thread' = [recv_thread EXCEPT !.pc = "l247", !.p = @ + 1, !.pos = 0, !.task = NoTask]
  /\ last' = Statement
  /\ UNCHANGED <<untouched_by_threads, answered, main_thread, frames, attempts, pending_requests, cb_calls,
                 signal_callbacks, pending_polls, created, replaced>>

\* lines 262-264: is a poll of the closure's task in flight
recv_check_pending ==
  /\ recv_thread.pc = "l262"
  /\ LET poll_key == <<recv_thread.h[1], recv_thread.h[2]>>
     IN recv_thread' = IF poll_key \in DOMAIN pending_polls
                       THEN [recv_thread EXCEPT !.pc = "l265",
                                                !.callback_ref = pending_polls[poll_key].callback]
                       ELSE [recv_thread EXCEPT !.pc = "l107", !.h = NoCallback, !.current_time = 0,
                                                !.p = 0]
  /\ answered' = IF Recording(recv_thread.h) THEN answered \cup {recv_thread.h} ELSE answered
  /\ last' = Statement
  /\ UNCHANGED <<untouched_by_threads, main_thread, frames, attempts, pending_requests, cb_calls,
                 signal_callbacks, polling_tasks, pending_polls, created, replaced>>

\* lines 265-267: the recorded handler is deregistered and the entry
\* deleted; a KeyError of the del is caught by _call_callback (interface.py
\* lines 116-119)
recv_remove_pending ==
  /\ recv_thread.pc = "l265"
  /\ LET poll_key == <<recv_thread.h[1], recv_thread.h[2]>>
     IN /\ signal_callbacks' = remove_signal_callback(signal_callbacks, recv_thread.h[2],
                                                      Member(recv_thread.h[1]).can_id,
                                                      recv_thread.callback_ref)
        /\ pending_polls' = IF poll_key \in DOMAIN pending_polls
                            THEN DictDel(pending_polls, poll_key) ELSE pending_polls
  /\ recv_thread' = [recv_thread EXCEPT !.pc = "l107", !.h = NoCallback, !.current_time = 0,
                                        !.p = 0, !.callback_ref = NoCallback]
  /\ last' = Statement
  /\ UNCHANGED <<untouched_by_threads, answered, main_thread, frames, attempts, pending_requests, cb_calls,
                 polling_tasks, created, replaced>>

\* The poller's update on the main-loop thread and the frame dispatch on the
\* receive thread, interleaved statement by statement.
NextThreads ==
  \/ \E d \in ThreadTimeSteps : sleep(d)
  \/ update_enter
  \/ \E jitter_draw \in JitterDraws : update_task(jitter_draw)
  \/ update_return
  \/ update_check_pending
  \/ update_remove_previous
  \/ update_del_pending
  \/ \E success \in BOOLEAN : update_send(success)
  \/ update_write_task
  \/ update_track
  \/ \E msg \in PollerFrames : recv_frame(msg)
  \/ recv_next_callback
  \/ recv_dispatch_done
  \/ recv_read_task
  \/ recv_write_task
  \/ recv_check_pending
  \/ recv_remove_pending

SpecThreads == Init /\ [][NextThreads]_vars

(***************************************************************************)
(* Properties of the protocol engine (checked under SpecProtocol)          *)
(***************************************************************************)
\* the last operation was a full-length frame
FullFrame == last.op = "frame" /\ Len(last.msg.data) >= 7

\* the last operation was a truncated frame
ShortFrame == last.op = "frame" /\ Len(last.msg.data) < 7

\* C1: when a second read_signal callback overwrote a pending first one for
\* the same (member, index), the first one is never invoked, and once a
\* response frame for that key has been processed the second one has been
\* invoked exactly once.
C1_SecondCallbackOnly ==
  \A pair \in evicted :
    /\ cb_calls[pair[1]] = 0
    /\ (FullFrame /\ last.pending_before = pair[2]) => cb_calls[pair[2]] = 1

\* C2: a full-length frame whose (sender, index) has a pending request
\* removes the entry and invokes its callback, once, with the decoded value;
\* with the entry gone, a second frame for the key finds no callback.
C2_PendingResolvedOnce ==
  (FullFrame /\ last.pending_before # 0) =>
    /\ <<last.msg.arbitration_id, ParseFrame(last.msg.data).index>> \notin DOMAIN pending_requests
    /\ last.cb_invoked
    /\ last.cb = last.pending_before
    /\ cb_calls[last.pending_before] = 1
    /\ last.value = ParseFrame(last.msg.data).raw

\* C3: for every full-length frame, every handler registered at that moment
\* is invoked exactly once, whether or not a pending request matched.
C3_EveryHandlerOnce ==
  FullFrame => last.handlers_invoked = last.registered

\* C4: when a registered handler raises during the dispatch of a frame,
\* every other registered handler is still invoked for that frame.
C4_RaisingHandlerIsolated ==
  (FullFrame /\ last.raiser # "") =>
    \A i \in 1..Len(last.registered) : InList(last.registered[i], last.handlers_invoked)

\* C5: when the pending callback matched by a frame raises, the registered
\* handlers are still invoked for that frame.
C5_RaisingCallbackIsolated ==
  (FullFrame /\ last.cb_raised) => last.handlers_invoked = last.registered

\* C6: a frame shorter than 7 bytes invokes no pending callback and no
\* handler, raises nothing, and leaves pending_requests (and every other
\* table) unchanged.
C6_ShortFrameDropped ==
  [][(last'.op = "frame" /\ frames' = frames + 1 /\ Len(last'.msg.data) < 7) =>
       /\ pending_requests' = pending_requests
       /\ cb_calls' = cb_calls
       /\ signal_callbacks' = signal_callbacks
       /\ polling_tasks' = polling_tasks
       /\ pending_polls' = pending_polls
       /\ ~last'.cb_invoked
       /\ last'.handlers_invoked = << >>
       /\ last'.invoked = << >>
       /\ ~last'.error]_vars

\* C6 happens: a truncated frame arrived from a sender that has a pending
\* request, while handlers are registered
C6_Witness ==
  /\ ShortFrame
  /\ \E key \in DOMAIN pending_requests : key[1] = last.msg.arbitration_id
  /\ Len(signal_handlers) > 1

\* C37: for every full-length frame, the index the signal handlers are
\* called with is the index the payload carries, also when the catalog does
\* not hold that index.
C37_HandlersGetFrameIndex ==
  (FullFrame /\ last.handlers_invoked # << >>) => last.ei_index = last.index

\* C38: read_signal with a callback registers the pending request before
\* the frame goes to the transport, so a response for the request that is
\* processed once the frame has been sent finds the entry and invokes the
\* callback of that read.
C38_ResponseFindsRequest ==
  [][ (/\ last.op = "read"
       /\ last.callback # 0
       /\ last.sent # << >>
       /\ last'.op = "frame"
       /\ Len(last'.msg.data) >= 7
       /\ last'.msg.arbitration_id = Member(last.member_index).can_id
       /\ ParseFrame(last'.msg.data).index = last.signal_index) =>
         /\ last'.cb_invoked
         /\ last'.cb = last.callback ]_vars

(***************************************************************************)
(* Properties of the poller (checked under SpecPoller)                     *)
(***************************************************************************)
\* the task tuple of a poll key: the first one in the order update visits
TaskFor(tasks_by_priority, poll_key) ==
  LET k == CHOOSE n \in 1..Len(TaskOrder) :
             LET t == tasks_by_priority[TaskOrder[n][1]][TaskOrder[n][2]]
             IN <<t.member_index, t.signal_index>> = poll_key
  IN tasks_by_priority[TaskOrder[k][1]][TaskOrder[k][2]]

\* the step is a frame that _on_signal_update dispatched for this poll key
DispatchedFor(poll_key) ==
  /\ last'.op = "frame"
  /\ frames' = frames + 1
  /\ InList("iface", last'.handlers_invoked)
  /\ last'.msg.arbitration_id = Member(poll_key[1]).can_id
  /\ last'.ei_index = poll_key[2]

\* C7: when update polls a task that has an in-flight entry, the entry's
\* handler is deregistered and the entry dropped by the time the read is
\* sent, and no frame processed afterwards is delivered to that handler.
C7_PreviousHandlerGone ==
  /\ last.op = "update" =>
        \A i \in 1..Len(last.sends) :
          \A h \in last.sends[i].previous :
            /\ ~InList(h, last.sends[i].registered)
            /\ last.sends[i].poll_key \notin last.sends[i].in_flight
  /\ last.op = "frame" => \A h \in replaced : ~InList(h, last.invoked)
  /\ \A h \in replaced : \A key \in DOMAIN signal_callbacks : ~InList(h, signal_callbacks[key])

\* C7 happens: after update replaced an in-flight handler of a task and sent
\* the new read (every read of the task was sent), a frame for that task was
\* delivered to a handler of the task
C7_Witness ==
  /\ last.op = "frame"
  /\ last.invoked # << >>
  /\ \E h \in replaced : h[1] = last.invoked[1][1] /\ h[2] = last.invoked[1][2]
  /\ LET poll_key == <<last.invoked[1][1], last.invoked[1][2]>>
     IN /\ TaskFor(polling_tasks, poll_key).poll_count >= 2
        /\ TaskFor(polling_tasks, poll_key).poll_count = created[poll_key]

\* C8: at most one poller handler is registered per task, and every
\* registered poller handler is the one recorded in pending_polls.
C8_OneRecordedHandler ==
  \A key \in DOMAIN signal_callbacks :
    /\ Len(signal_callbacks[key]) <= 1
    /\ \A i \in 1..Len(signal_callbacks[key]) :
         LET h == signal_callbacks[key][i]
         IN /\ <<h[1], h[2]>> \in DOMAIN pending_polls
            /\ pending_polls[<<h[1], h[2]>>].callback = h

\* C9: a frame dispatched for (m, s) while a poll of (m, s) is in flight
\* adds exactly 1 to response_count, sets last_response_time to the current
\* time, deregisters the in-flight handler and removes the entry; any other
\* frame changes none of these.
C9_ResponseCountedOnce ==
  [][\A poll_key \in PollKeys :
       LET key == <<Member(poll_key[1]).can_id, poll_key[2]>>
           old == TaskFor(polling_tasks, poll_key)
           new == TaskFor(polling_tasks', poll_key)
       IN /\ (DispatchedFor(poll_key) /\ poll_key \in DOMAIN pending_polls) =>
               /\ new.response_count = old.response_count + 1
               /\ new.last_response_time = now
               /\ ~InList(pending_polls[poll_key].callback, signal_callbacks'[key])
               /\ poll_key \notin DOMAIN pending_polls'
          /\ (last'.op = "frame" /\ frames' = frames + 1 /\ ~DispatchedFor(poll_key)) =>
               /\ new = old
               /\ (poll_key \in DOMAIN pending_polls) = (poll_key \in DOMAIN pending_polls')
               /\ DictGetList(signal_callbacks', key) = DictGetList(signal_callbacks, key)]_vars

\* C10: every task update polled has its poll_count increased by exactly 1,
\* whether read_signal returned True or False.
C10_PollCounted ==
  last.op = "update" =>
    \A i \in 1..Len(last.sends) :
      polling_tasks[last.sends[i].priority][last.sends[i].position].poll_count
        = last.sends[i].poll_count + 1

\* the handler is registered for some (CAN id, signal) in the dict of lists
Registered(cbs, h) == \E key \in DOMAIN cbs : InList(h, cbs[key])

\* C13: after get_stats, pending_polls holds no entry whose request time is
\* more than 60 s before the call, the handler of every removed entry is
\* deregistered, and the entries aged 60 s or less and their handlers are as
\* they were.
C13_StaleReaped ==
  [][last'.op = "stats" =>
       /\ \A k \in DOMAIN pending_polls' : now - pending_polls'[k].request_time <= 60
       /\ \A k \in DOMAIN pending_polls :
            IF now - pending_polls[k].request_time > 60
            THEN /\ k \notin DOMAIN pending_polls'
                 /\ ~Registered(signal_callbacks', pending_polls[k].callback)
            ELSE /\ k \in DOMAIN pending_polls'
                 /\ pending_polls'[k] = pending_polls[k]
                 /\ Registered(signal_callbacks', pending_polls[k].callback)
                      = Registered(signal_callbacks, pending_polls[k].callback)]_vars

\* C13 happens: get_stats found a stale in-flight poll and dropped it
C13_Witness ==
  /\ last.op = "stats"
  /\ last.stale # {}
  /\ \A k \in last.stale : k \notin DOMAIN pending_polls

\* the pending request registered with this callback is in pending_requests
Held(callback) ==
  \E key \in DOMAIN pending_requests : pending_requests[key].callback = callback

\* the pending request of this callback is older than the reaping timeout
HeldStale(callback) ==
  \E key \in DOMAIN pending_requests :
    /\ pending_requests[key].callback = callback
    /\ now - pending_requests[key].timestamp > 60

\* C14: every pending request registered by read_signal with a callback is
\* eventually removed from pending_requests; in particular one that has
\* grown older than the 60 s reaping timeout does not stay there while
\* get_stats keeps being called.
C14_EventuallyRemoved ==
  \A callback \in 1..MaxCallbacks : HeldStale(callback) ~> ~Held(callback)

\* the signal index is present in the catalog
InCatalog(signal_index) ==
  \E i \in 1..Len(ELSTER_TABLE) : ELSTER_TABLE[i].index = signal_index

\* raw read as a signed 16-bit number
Signed16(raw) == IF raw > 32767 THEN raw - 65536 ELSE raw

\* C25: for a well-formed frame whose index is in the catalog a value is
\* decoded and delivered, and it equals the decoding of the raw value for
\* the type of the index: the raw value for ET_NONE, signed16(raw) / 10 for
\* ET_DEC_VAL (index 0x0126 with raw 0x00F5 delivers 24.5).  Checked under
\* SpecProtocol.
C25_DecodedDelivered ==
  (last.op = "frame" /\ ~last.short /\ InCatalog(last.index)) =>
    LET value_type == get_elster_entry_by_index(last.index).type
        raw        == ParseFrame(last.msg.data).raw
    IN /\ last.value # -1
       /\ value_type = "ET_NONE" => last.value = raw
       /\ value_type = "ET_DEC_VAL" => last.value * 10 = Signed16(raw)

\* the tasks of all priority lists
AllTasks ==
  {polling_tasks[TaskOrder[k][1]][TaskOrder[k][2]] : k \in 1..Len(TaskOrder)}

\* the task appears in the non-responsive list of the last get_stats
ListedNonResponsive(task) ==
  \E j \in 1..Len(last.stats.non_responsive_entities_list) :
    last.stats.non_responsive_entities_list[j] = <<Member(task.member_index).name, task.signal_index>>

\* C24: get_stats lists a task as non-responsive exactly when its
\* poll_count > 0 and its response_count = 0; the polled total counts the
\* distinct (member, signal) with poll_count > 0, the responsive total those
\* among them with response_count > 0.
C24_StatsExact ==
  last.op = "stats" =>
    /\ \A task \in AllTasks :
         ListedNonResponsive(task) <=> (task.poll_count > 0 /\ task.response_count = 0)
    /\ last.stats.total_polled_entities =
         Cardinality({<<t.member_index, t.signal_index>> : t \in {u \in AllTasks : u.poll_count > 0}})
    /\ last.stats.total_responsive_entities =
         Cardinality({<<t.member_index, t.signal_index>> :
                        t \in {u \in AllTasks : u.poll_count > 0 /\ u.response_count > 0}})
    /\ last.stats.non_responsive_count = Len(last.stats.non_responsive_entities_list)

\* C24 happens: get_stats reported a task that was polled and never answered
C24_Witness ==
  /\ last.op = "stats"
  /\ \E task \in AllTasks : task.poll_count > 0 /\ task.response_count = 0
  /\ last.stats.non_responsive_count = 1
  /\ last.stats.total_polled_entities = 1
  /\ last.stats.total_responsive_entities = 0

\* C39: when a frame is dispatched to the per-signal callbacks of its
\* (CAN id, signal), every callback that is in the list of that key when
\* the dispatch starts is invoked for the frame, also when a callback is
\* removed from the list during the dispatch.
C39_AllRegisteredInvoked ==
  [][ (last'.op = "frame" /\ InList("iface", last'.handlers_invoked)) =>
         LET key == <<last'.msg.arbitration_id, last'.ei_index>>
         IN \A i \in 1..Len(DictGetList(signal_callbacks, key)) :
               InList(signal_callbacks[key][i], last'.invoked) ]_vars

\* C40: in every reachable state every polling task has counted at most as
\* many responses as polls.
C40_ResponsesWithinPolls ==
  \A p \in DOMAIN polling_tasks :
    \A i \in 1..Len(polling_tasks[p]) :
      polling_tasks[p][i].response_count <= polling_tasks[p][i].poll_count

\* the reads the last call of update issued for the task at position k of
\* the visiting order
ReadsFor(k) ==
  {i \in 1..Len(last.sends) : /\ last.sends[i].priority = TaskOrder[k][1]
                              /\ last.sends[i].position = TaskOrder[k][2]}

\* the task at position k was due when the last call of update began: the
\* clock had reached its last poll time plus the interval plus the jitter
DueBefore(k) ==
  LET task == last.tasks_before[TaskOrder[k][1]][TaskOrder[k][2]]
  IN last.current_time >= task.last_poll_time + polling_intervals[TaskOrder[k][1]] + last.draws[k]

C33_NotDue ==
  /\ last.op = "update"
  /\ ~DueBefore(1)
  /\ last.sends = << >>

(***************************************************************************)
(* Properties of the codec and the catalog (checked under SpecCodec)       *)
(***************************************************************************)
\* the divisor of a scaled type
ScaleOf(value_type) ==
  CASE value_type = "ET_DEC_VAL" -> 10
    [] value_type = "ET_CENT_VAL" -> 100
    [] value_type = "ET_MIL_VAL" -> 1000

\* C26: for every raw value, value_from_signal with type ET_DEC_VAL,
\* ET_CENT_VAL or ET_MIL_VAL returns signed16(raw) divided by 10, 100 or
\* 1000 (0xFFFF as ET_DEC_VAL is -0.1, 0x8000 is -3276.8).
C26_SignedScaled ==
  (last.op = "decode" /\ last.value_type \in {"ET_DEC_VAL", "ET_CENT_VAL", "ET_MIL_VAL"}) =>
     /\ ~last.raised
     /\ last.value * ScaleOf(last.value_type) = Signed16(last.raw)

\* the value types that have both directions
BothDirections ==
  {"ET_INTEGER", "ET_BYTE", "ET_DEV_NR", "ET_BOOLEAN", "ET_LITTLE_BOOL", "ET_DEC_VAL",
   "ET_CENT_VAL", "ET_MIL_VAL", "ET_LITTLE_ENDIAN", "ET_MODE", "ET_ERR_CODE", "ET_TIME",
   "ET_DATE"}

\* C27: for every type with both directions and every value x that
\* value_from_signal produces from a raw value, decoding the encoding of x
\* gives x again.
C27_RoundTrip ==
  (last.op = "round_trip" /\ last.value_type \in BothDirections) =>
     /\ ~last.decode_raised
     /\ ~last.encode_raised
     /\ ~last.again_raised
     /\ last.again = last.decoded

\* C28: whenever signal_from_value returns a value, it lies in 0..0xFFFF.
C28_EncodedInRange ==
  (last.op = "encode" /\ ~last.raised) => last.value \in 0..65535

\* the text is three integers separated by '-'
WellFormedDate(string_value) ==
  LET parts == Split(string_value, "-")
  IN /\ Len(parts) = 3
     /\ \A i \in 1..3 : ~ParseInt(parts[i]).raised

\* C29: for every malformed ET_DATE text signal_from_value fails with an
\* error; such input is never encoded as a raw value.
C29_MalformedDateRejected ==
  (last.op = "encode" /\ last.value_type = "ET_DATE" /\ ~WellFormedDate(last.string_value)) =>
     last.raised

\* the key of the last lookup is absent from the catalog it was made on
LookupMissed ==
  /\ last.op = "lookup"
  /\ \A i \in 1..Len(last.table) : last.table[i][last.field] # last.key

\* C30: for every index or name absent from the catalog the lookups return
\* an entry with index 0 and type ET_NONE, whatever the loaded catalog.
C30_MissIsSentinel ==
  LookupMissed =>
     /\ ~last.raised
     /\ last.entry.index = 0
     /\ last.entry.type = "ET_NONE"

\* C35: for every signal index i in 0..0x1FFF (0xFA included) and every raw
\* value r in 0..0xFFFF, the parser of the receive path reads index i and
\* raw value r from the payload write_signal builds for (i, r).
C35_PayloadParsesBack ==
  (last.op = "payload_round_trip" /\ last.index \in 0..8191 /\ last.raw_value \in 0..65535) =>
     /\ ~last.short
     /\ last.parsed_index = last.index
     /\ last.parsed_raw = last.raw_value

(***************************************************************************)
(* Properties of read and write requests (checked under SpecCalls)         *)
(***************************************************************************)
\* the text is no value of the type: the type is ET_NONE, or the text is
\* not a number of the kind the numeric type takes
Unencodable(value, value_type) ==
  \/ value_type = "ET_NONE"
  \/ value_type \in {"ET_INTEGER", "ET_BYTE"} /\ ParseInt(value).raised
  \/ value_type = "ET_DEC_VAL" /\ ParseFloat(value).raised

\* the last operation was a write_signal call for a member of the list
WriteCalled == last.op = "write" /\ last.member_index < Len(can_members)

\* the type write_signal found for the signal of the last call
WriteType == get_elster_entry_by_index(last.signal_index).type

\* the read request write_signal is to send after the write frame
ConfirmationRead ==
  [arbitration_id |-> Member(CM_HACLIENT).can_id,
   data |-> ReadPayload(Member(last.member_index),
                        get_elster_entry_by_index(last.signal_index).index)]

\* C16: write_signal returns True whenever the value encodes and the
\* transport reports the write frame as sent.
C16_WriteReturnsTrue ==
  (WriteCalled /\ ~Unencodable(last.value, WriteType) /\ last.send_ok) => last.success

\* C17: after write_signal has sent the write frame it sends a read request
\* for the same signal to the same member before it returns.
C17_ConfirmationReadSent ==
  (WriteCalled /\ last.sent # << >>) =>
     /\ Len(last.sent) = 2
     /\ last.sent[2] = ConfirmationRead

C19_InvalidReadRejected ==
  (last.op = "read"
     /\ (last.member_index >= Len(can_members) \/ ~InCatalog(last.signal_index))) =>
     /\ ~last.success
     /\ last.sent = << >>

\* the last operation was a read_signal or write_signal call that handed a
\* frame to the transport
RequestSent == last.op \in {"read", "write"} /\ last.sent # << >>

\* C31: every frame read_signal or write_signal sends has the client's own
\* address as arbitration id and not the address of the member it goes to;
\* the member appears only as its sub-address in payload bytes 0-1.
C31_SourcedFromClient ==
  RequestSent =>
     \A i \in 1..Len(last.sent) :
        /\ last.sent[i].arbitration_id = Member(CM_HACLIENT).can_id
        /\ last.sent[i].arbitration_id # Member(last.member_index).can_id
        /\ SubSeq(last.sent[i].data, 1, 2) =
              (IF last.op = "read" THEN Member(last.member_index).read_id
               ELSE Member(last.member_index).write_id)

\* C31 happens: a write frame went out to MANAGER
C31_Witness ==
  /\ RequestSent
  /\ last.op = "write"
  /\ last.member_index = 4
  /\ last.sent[1].arbitration_id = 1664
  /\ SubSeq(last.sent[1].data, 1, 2) = <<144, 0>>

\* the two value bytes of the last request: zeros for a read, the encoded
\* value, high byte first, for a write
RequestValueBytes ==
  IF last.op = "read" THEN <<0, 0>>
  ELSE LET raw_value == signal_from_value(last.value, WriteType).value
       IN <<(raw_value \div 256) % 256, raw_value % 256>>

\* C32: the payload read_signal or write_signal builds for signal index i
\* has 7 bytes, the member's read (write) sub-address in bytes 0-1 and, for
\* i <= 0xFF, i in byte 2, the value bytes in bytes 3-4 and zeros in bytes
\* 5-6; for i > 0xFF, 0xFA in byte 2, i big-endian in bytes 3-4 and the
\* value bytes in bytes 5-6.
C32_PayloadLayout ==
  RequestSent =>
     LET data == last.sent[1].data
         i    == last.signal_index
     IN /\ Len(data) = 7
        /\ <<Byte(data, 0), Byte(data, 1)>> =
              (IF last.op = "read" THEN Member(last.member_index).read_id
               ELSE Member(last.member_index).write_id)
        /\ IF i <= 255
           THEN /\ Byte(data, 2) = i
                /\ <<Byte(data, 3), Byte(data, 4)>> = RequestValueBytes
                /\ <<Byte(data, 5), Byte(data, 6)>> = <<0, 0>>
           ELSE /\ Byte(data, 2) = 250
                /\ Byte(data, 3) * 256 + Byte(data, 4) = i
                /\ <<Byte(data, 5), Byte(data, 6)>> = RequestValueBytes

\* C36: a call of read_signal with a callback that returns False leaves
\* pending_requests as it was: no entry is added and none is replaced.
C36_FailedReadLeavesPending ==
  [][ (last'.op = "read" /\ last'.callback # 0 /\ ~last'.success) =>
         pending_requests' = pending_requests ]_vars

(***************************************************************************)
(* Properties of the gateway (checked under SpecGateway)                   *)
(***************************************************************************)
\* C20: with ignore_unsolicited_signals enabled, process_signal neither
\* publishes nor registers an entity for a value whose signal index has
\* never been polled or commanded (no index is polled in SpecGateway).
C20_UnsolicitedDropped ==
  (ignore_unsolicited_signals /\ last.op = "process_signal" /\ last.signal_index \notin DOMAIN commanded) =>
     /\ ~last.registered
     /\ ~last.published

\* C20 happens: a value of the typed signal, which registration accepts,
\* arrived over a connected MQTT link before any command and was dropped
C20_Witness ==
  /\ last.op = "process_signal"
  /\ last.signal_index = 294
  /\ commanded = EmptyDict
  /\ last.outcome = "unsolicited"
  /\ entity_map = EmptyDict

\* the poller has sent a read for this signal index within the last 300 s
PolledWithinTimeout(signal_index) ==
  \E poll_key \in PollKeys :
    /\ poll_key[2] = signal_index
    /\ attempts[poll_key].time >= 0
    /\ attempts[poll_key].success
    /\ now - attempts[poll_key].time <= 300

\* C21: with filtering enabled, a value for index i that process_signal
\* receives (MQTT connected) within 300 s of the poller's poll of i is
\* accepted and forwarded downstream (checked under SpecFilter).
C21_PolledAccepted ==
  (ignore_unsolicited_signals /\ last.op = "process_signal" /\ last.connected
     /\ PolledWithinTimeout(last.signal_index)) =>
     /\ last.outcome # "unsolicited"
     /\ last.published

\* handle_command was called for an entity of this signal index within the
\* last 300 s
CommandedWithinTimeout(signal_index) ==
  /\ signal_index \in DOMAIN commanded
  /\ now - commanded[signal_index].time <= 300

\* C22: with filtering enabled, the confirmation value for index i (the
\* value the command wrote) that process_signal receives within 300 s of
\* handle_command for an entity of i, with MQTT connected and publishing,
\* is accepted and published (checked under SpecGateway).
C22_ConfirmationPublished ==
  (ignore_unsolicited_signals /\ last.op = "process_signal"
     /\ last.connected /\ last.publish_ok
     /\ CommandedWithinTimeout(last.signal_index)
     /\ str(last.value) = commanded[last.signal_index].command) =>
     /\ last.outcome # "unsolicited"
     /\ last.published

\* C23: with filtering enabled, a value for index i received more than
\* 300 s after the most recent poll or command of i is dropped (no entity
\* is registered for it and nothing is published), whatever was received in
\* between (checked under SpecGateway).
C23_DroppedAfterTimeout ==
  (ignore_unsolicited_signals /\ last.op = "process_signal" /\ last.connected
     /\ last.signal_index \in DOMAIN commanded
     /\ ~CommandedWithinTimeout(last.signal_index)
     /\ ~PolledWithinTimeout(last.signal_index)) =>
     /\ ~last.registered
     /\ ~last.published

(***************************************************************************)
(* Properties of update and the dispatch as interleaved threads (checked   *)
(* under SpecThreads)                                                      *)
(***************************************************************************)
\* the reads the last operation issued, each with the clock reading of its
\* update call and the previous read attempt of its task
ReadsIssued ==
  IF last.op = "update" THEN last.sends
  ELSE IF last.op = "update_send" THEN <<last.send>>
  ELSE << >>

\* the last operation was the end of a call of update (it returned or raised)
UpdateEnded == last.op \in {"update", "update_return", "update_raised"}

\* C11: update issues no read for a task earlier than last_poll + interval -
\* jitter, where last_poll is the time of the task's previous poll attempt,
\* whether that attempt's read succeeded or failed.
C11_NotBeforeSchedule ==
  \A i \in 1..Len(ReadsIssued) :
    LET e == ReadsIssued[i]
    IN e.previous_attempt.time >= 0 =>
         e.time >= e.previous_attempt.time + polling_intervals[e.priority] - poll_jitter_seconds

\* C12: a call of update made at or after t + interval + jitter, where t is
\* the time of a task's previous poll attempt, issues a read for that task,
\* whatever jitter is drawn and whatever else happens during the call.
C12_PolledWhenOverdue ==
  UpdateEnded =>
    \A poll_key \in PollKeys :
      LET t == last.attempts_before[poll_key].time
      IN (t >= 0 /\ last.current_time >= t + IntervalFor(poll_key) + poll_jitter_seconds) =>
           attempts[poll_key].time = last.current_time

\* update is between its first and its last statement
MainInUpdate == main_thread.pc \notin {"idle", "raised"}

\* the receive thread is between the first and the last statement of a dispatch
RecvInDispatch == recv_thread.pc # "idle"

\* the pending-request table, the in-flight table, the handler lists and the
\* task tuples
SharedTables == <<pending_requests, pending_polls, signal_callbacks, polling_tasks>>

\* C15: the accesses of the two threads to the shared tables are serialized:
\* neither thread changes a table while the other is in the middle of its
\* own operation on them.
C15_AccessSerialized ==
  [][SharedTables' # SharedTables =>
       IF main_thread' # main_thread THEN ~RecvInDispatch ELSE ~MainInUpdate]_vars

\* the positions of the visiting order that hold the task of a closure
TasksOf(h) ==
  {k \in 1..Len(TaskOrder) : /\ TaskAt(k).member_index = h[1]
                             /\ TaskAt(k).signal_index = h[2]}

\* C34: when the closure of a poll has handled the response after update
\* sent the read and before update finished recording the poll, the
\* write-back of update does not take the counted response away, and when
\* update returns the closure is deregistered and no in-flight entry of the
\* poll is left.
C34_EarlyResponseKept ==
  [][ /\ \A h \in answered :
           Recording(h) =>
             \A k \in TasksOf(h) : TaskAt(k)'.response_count >= TaskAt(k).response_count
      /\ (main_thread.pc # "idle" /\ main_thread'.pc = "idle") =>
           \A h \in answered' :
             created'[<<h[1], h[2]>>] = h[3] =>
               /\ <<h[1], h[2]>> \notin DOMAIN pending_polls'
               /\ ~InList(h, DictGetList(signal_callbacks', <<Member(h[1]).can_id, h[2]>>)) ]_vars

====
